---- MODULE Spec2Model ----
(***************************************************************************)
(* Derived-metrics engine of the construction-order dashboard (src/app.py). *)
(*                                                                          *)
(* Dates are proleptic Gregorian ordinals (date.toordinal()), NaT is the    *)
(* missing date.  Floating-point quantities are exact rationals             *)
(* [n |-> numerator, d |-> denominator], d > 0, kept in lowest terms; the   *)
(* rounding error of IEEE doubles is not modelled.                          *)
(* The Japanese string literals of the source are written in ASCII:         *)
(*   risk levels  "Low" = U+4F4E, "Mid" = U+4E2D, "High" = U+9AD8           *)
(*   "OverBudget" = yosan-chouka, "MajorSlip" = shinchoku-oohaba-okure,     *)
(*   "Slip" = shinchoku-okure, "Delay<n>d" = chien <n> nichi,               *)
(*   "Manual:<level>" = shudou-hyouka:<level>, "Stable" = antei,            *)
(*   "nan" = str() of a missing (NaN) cell of a text column.                *)
(***************************************************************************)
EXTENDS Integers, Sequences, FiniteSets, TLC

VARIABLES clock, call, hist

vars == <<clock, call, hist>>

(* ------------------------------------------------------------------ *)
(* Bounds of the model                                                 *)
(* ------------------------------------------------------------------ *)
\* the largest number of rows of a project table
MaxProjects == 1

(* ------------------------------------------------------------------ *)
(* Program constants                                                   *)
(* ------------------------------------------------------------------ *)
FISCAL_START_MONTH == 7
DEFAULT_FISCAL_YEAR == 2025
\* FISCAL_YEAR_OPTIONS = range(2024, 2029)
FirstFiscalYear == 2024
LastFiscalYear == 2028

(* ------------------------------------------------------------------ *)
(* Calendar: datetime.date arithmetic                                  *)
(* ------------------------------------------------------------------ *)
NaT == -1

IsLeap(y) == (y % 4 = 0) /\ ((y % 100 # 0) \/ (y % 400 = 0))

DaysInMonth(y, m) ==
    IF m = 2 THEN (IF IsLeap(y) THEN 29 ELSE 28)
    ELSE IF m \in {4, 6, 9, 11} THEN 30 ELSE 31

DaysBeforeYear(y) ==
    (y - 1) * 365 + ((y - 1) \div 4) - ((y - 1) \div 100) + ((y - 1) \div 400)

\* _DAYS_BEFORE_MONTH[month] + (month > 2 and _is_leap(year))
DaysBeforeMonth(y, m) ==
    <<0, 31, 59, 90, 120, 151, 181, 212, 243, 273, 304, 334>>[m]
    + (IF m > 2 /\ IsLeap(y) THEN 1 ELSE 0)

\* date(y, m, d).toordinal()
Date(y, m, d) == DaysBeforeYear(y) + DaysBeforeMonth(y, m) + d

\* date.fromordinal(o), as (year, month, day): CPython's _ord2ymd
Ord2Ymd(o) ==
    LET n0 == o - 1
        n400 == n0 \div 146097
        r400 == n0 % 146097
        n100 == r400 \div 36524
        r100 == r400 % 36524
        n4 == r100 \div 1461
        r4 == r100 % 1461
        n1 == r4 \div 365
        n == r4 % 365
        year == n400 * 400 + n100 * 100 + n4 * 4 + n1 + 1
    IN IF n1 = 4 \/ n100 = 4 THEN <<year - 1, 12, 31>>
       ELSE LET guess == (n + 50) \div 32
                before == DaysBeforeMonth(year, guess)
                month == IF before > n THEN guess - 1 ELSE guess
                preceding == IF before > n
                             THEN before - DaysInMonth(year, guess - 1) ELSE before
            IN <<year, month, n - preceding + 1>>

YearOf(o) == Ord2Ymd(o)[1]
MonthOf(o) == Ord2Ymd(o)[2]
DayOf(o) == Ord2Ymd(o)[3]

Min(a, b) == IF a <= b THEN a ELSE b
Max(a, b) == IF a >= b THEN a ELSE b

\* d + relativedelta(months=k): the day is clipped to the target month's length
AddMonths(o, k) ==
    LET y == YearOf(o)
        m == MonthOf(o)
        t == (y * 12 + (m - 1)) + k
        ny == t \div 12
        nm == (t % 12) + 1
    IN Date(ny, nm, Min(DayOf(o), DaysInMonth(ny, nm)))

AddDays(o, k) == o + k

(* ------------------------------------------------------------------ *)
(* Exact rationals standing for float results                          *)
(* ------------------------------------------------------------------ *)
Abs(x) == IF x < 0 THEN -x ELSE x

RECURSIVE GCD(_, _)
GCD(a, b) == IF b = 0 THEN a ELSE GCD(b, a % b)

Rat(n, d) ==
    LET g == GCD(Abs(n), Abs(d))
        s == IF d < 0 THEN -1 ELSE 1
    IN [n |-> s * (n \div g), d |-> s * (d \div g)]

Zero == [n |-> 0, d |-> 1]
RInt(k) == [n |-> k, d |-> 1]
\* sums and products reduce before they multiply, to keep the integers small
RAdd(a, b) ==
    LET g == GCD(a.d, b.d)
    IN Rat(a.n * (b.d \div g) + b.n * (a.d \div g), (a.d \div g) * b.d)
RNeg(a) == [n |-> -a.n, d |-> a.d]
RSub(a, b) == RAdd(a, RNeg(b))
RMul(a, b) ==
    LET g1 == GCD(Abs(a.n), b.d)
        g2 == GCD(Abs(b.n), a.d)
    IN IF a.n = 0 \/ b.n = 0 THEN Zero
       ELSE Rat((a.n \div g1) * (b.n \div g2), (a.d \div g2) * (b.d \div g1))
RDiv(a, b) == RMul(a, IF b.n < 0 THEN [n |-> -b.d, d |-> -b.n] ELSE [n |-> b.d, d |-> b.n])
RLt(a, b) == a.n * b.d < b.n * a.d
RLe(a, b) == a.n * b.d <= b.n * a.d

(* ------------------------------------------------------------------ *)
(* coerce_date, get_fiscal_year_range, allocate_value                  *)
(* ------------------------------------------------------------------ *)
\* None for a missing value (None, "", NaT), the date otherwise
None == -2

coerce_date(value) == IF value \in {None, NaT} THEN None ELSE value

\* variant: the range ends on the first day of the next fiscal year
get_fiscal_year_range_noMinusDay(year) ==
    LET start == Date(year, FISCAL_START_MONTH, 1)
    IN <<start, AddMonths(start, 12)>>

get_fiscal_year_range(year) ==
    LET start == Date(year, FISCAL_START_MONTH, 1)
    IN <<start, AddDays(AddMonths(start, 12), -1)>>

\* variant: total_days counts the nights, not the days, of the range
allocate_value_exclusiveTotal(value, start, end, month_start, month_end) ==
    LET start_date == coerce_date(start)
        end_date == coerce_date(end)
    IN IF start_date = None \/ end_date = None THEN Zero
       ELSE IF start_date > month_end \/ end_date < month_start THEN Zero
       ELSE LET overlap_start == Max(start_date, month_start)
                overlap_end == Min(end_date, month_end)
            IN IF overlap_start > overlap_end THEN Zero
               ELSE LET total_days == end_date - start_date
                    IN IF total_days <= 0 THEN Zero
                       ELSE LET overlap_days == (overlap_end - overlap_start) + 1
                            IN RMul(value, Rat(overlap_days, total_days))

allocate_value(value, start, end, month_start, month_end) ==
    LET start_date == coerce_date(start)
        end_date == coerce_date(end)
    IN IF start_date = None \/ end_date = None THEN Zero
       ELSE IF start_date > month_end \/ end_date < month_start THEN Zero
       ELSE LET overlap_start == Max(start_date, month_start)
                overlap_end == Min(end_date, month_end)
            IN IF overlap_start > overlap_end THEN Zero
               ELSE LET total_days == (end_date - start_date) + 1
                    IN IF total_days <= 0 THEN Zero
                       ELSE LET overlap_days == (overlap_end - overlap_start) + 1
                            IN RMul(value, Rat(overlap_days, total_days))

(* ------------------------------------------------------------------ *)
(* compute_monthly_aggregation                                         *)
(*   columns of a project row: orderAmount = juchuu-kingaku,           *)
(*   plannedCost = yotei-genka, headcount = tsuki-heikin-hitsuyou-     *)
(*   ninzuu, plannedStart/plannedEnd = chakkou-bi/shunkou-bi,          *)
(*   collectionStart/End = kaishuu-kaishi/shuuryou-bi,                 *)
(*   paymentStart/End = shiharai-kaishi/shuuryou-bi                    *)
(* ------------------------------------------------------------------ *)
\* bool(v) of Python: None and "" are false; a date and NaT are true
Truthy(v) == v # None

\* a or b
PyOr(a, b) == IF Truthy(a) THEN a ELSE b

\* pd.date_range(start, end, freq="MS"): the month starts within [start, end]
RECURSIVE MonthStartsFrom(_, _)
MonthStartsFrom(first, end) ==
    IF first > end THEN <<>>
    ELSE <<first>> \o MonthStartsFrom(AddMonths(first, 1), end)

date_range_MS(start, end) ==
    LET first == IF DayOf(start) = 1 THEN start
                 ELSE AddMonths(start - DayOf(start) + 1, 1)
    IN MonthStartsFrom(first, end)

\* Series.cumsum()
RECURSIVE cumsum(_, _)
cumsum(xs, k) == IF k = 0 THEN Zero ELSE RAdd(cumsum(xs, k - 1), xs[k])

\* variant: the month window runs to the first day of the next month
month_end_of_nextMonthStart(month_start) == AddMonths(month_start, 1)

\* month_start + relativedelta(months=1) - relativedelta(days=1)
month_end_of(month_start) == AddDays(AddMonths(month_start, 1), -1)

month_record(df, month_start) ==
    LET month_end == month_end_of(month_start)
        \* total += f(row) for the rows of df, in row order
        SumRows(f(_)) == cumsum([k \in 1..Len(df) |-> f(df[k])], Len(df))
        revenue(row) == allocate_value(row.orderAmount, row.plannedStart,
                                       row.plannedEnd, month_start, month_end)
        cost(row) == allocate_value(row.plannedCost, row.plannedStart,
                                    row.plannedEnd, month_start, month_end)
        manpower(row) == allocate_value(row.headcount, row.plannedStart,
                                        row.plannedEnd, month_start, month_end)
        cash_in(row) == allocate_value(row.orderAmount,
                                       PyOr(row.collectionStart, row.plannedStart),
                                       PyOr(row.collectionEnd, row.plannedEnd),
                                       month_start, month_end)
        cash_out(row) == allocate_value(row.plannedCost,
                                        PyOr(row.paymentStart, row.plannedStart),
                                        PyOr(row.paymentEnd, row.plannedEnd),
                                        month_start, month_end)
        month_revenue == SumRows(revenue)
        month_cost == SumRows(cost)
        month_cash_in == SumRows(cash_in)
        month_cash_out == SumRows(cash_out)
        gross == RSub(month_revenue, month_cost)
    IN [month |-> month_start,
        revenue |-> month_revenue,
        plannedCost |-> month_cost,
        grossProfit |-> gross,
        grossMarginPct |-> IF month_revenue # Zero
                           THEN RMul(RDiv(gross, month_revenue), RInt(100))
                           ELSE Zero,
        manpower |-> SumRows(manpower),
        cashIn |-> month_cash_in,
        cashOut |-> month_cash_out,
        cashFlow |-> RSub(month_cash_in, month_cash_out)]

\* variant: the cumulative column repeats the month's own cash flow
RECURSIVE with_cumulative_noRunning(_, _, _, _)
with_cumulative_noRunning(df, months, k, running) ==
    IF k > Len(months) THEN <<>>
    ELSE CHOOSE rest \in
            {<<[month |-> rec.month,
                revenue |-> rec.revenue,
                plannedCost |-> rec.plannedCost,
                grossProfit |-> rec.grossProfit,
                grossMarginPct |-> rec.grossMarginPct,
                manpower |-> rec.manpower,
                cashIn |-> rec.cashIn,
                cashOut |-> rec.cashOut,
                cashFlow |-> rec.cashFlow,
                cumulativeCashFlow |-> rec.cashFlow]>>
             \o with_cumulative_noRunning(df, months, k + 1, running) :
                rec \in {month_record(df, months[k])}} : TRUE

\* monthly_df with its two derived columns: the records of the months from
\* position k on, each with its cash flow added to the running total of the
\* months before it (cumsum)
RECURSIVE with_cumulative(_, _, _, _)
with_cumulative(df, months, k, running) ==
    IF k > Len(months) THEN <<>>
    ELSE CHOOSE rest \in
            {<<[month |-> rec.month,
                revenue |-> rec.revenue,
                plannedCost |-> rec.plannedCost,
                grossProfit |-> rec.grossProfit,
                grossMarginPct |-> rec.grossMarginPct,
                manpower |-> rec.manpower,
                cashIn |-> rec.cashIn,
                cashOut |-> rec.cashOut,
                cashFlow |-> rec.cashFlow,
                cumulativeCashFlow |-> RAdd(running, rec.cashFlow)]>>
             \o with_cumulative(df, months, k + 1, RAdd(running, rec.cashFlow)) :
                rec \in {month_record(df, months[k])}} : TRUE

compute_monthly_aggregation(df, fiscal_range) ==
    LET months == date_range_MS(fiscal_range[1], fiscal_range[2])
    IN IF df = <<>>
       THEN [k \in 1..Len(months) |->
                [month |-> months[k], revenue |-> Zero, plannedCost |-> Zero,
                 grossProfit |-> Zero, grossMarginPct |-> Zero, manpower |-> Zero,
                 cashIn |-> Zero, cashOut |-> Zero, cashFlow |-> Zero,
                 cumulativeCashFlow |-> Zero]]
       ELSE with_cumulative(df, months, 1, Zero)

(* ------------------------------------------------------------------ *)
(* Inputs                                                              *)
(* ------------------------------------------------------------------ *)
\* the default year, and a year whose February has 29 days
FiscalYears == {DEFAULT_FISCAL_YEAR, DEFAULT_FISCAL_YEAR + 2}

\* offsets, in days from the first day of a fiscal year, of the range dates
RangeOffsets == {-16, -1, 0, 9, 30, 31, 121, 242, 243, 364, 365, 371}

RangeDates(year) == {get_fiscal_year_range(year)[1] + k : k \in RangeOffsets}

Amounts == {RInt(0), RInt(1200), Rat(1825, 2)}

\* the calendar months of a fiscal year, as (first day, last day)
MonthWindow(year, i) ==
    LET month_start == AddMonths(get_fiscal_year_range(year)[1], i)
    IN <<month_start, month_end_of(month_start)>>

\* the project tables handed to compute_monthly_aggregation: ranges inside,
\* across and outside the fiscal year, reversed, of one day, and with a date
\* missing
AggStartOffsets == {-16, 9, 121}
AggEndOffsets == {9, 121, 371}

AggStarts(year) == {get_fiscal_year_range(year)[1] + k : k \in AggStartOffsets} \cup {NaT}
AggEnds(year) == {get_fiscal_year_range(year)[1] + k : k \in AggEndOffsets} \cup {NaT}

\* collection and payment periods: each endpoint set or missing
CashPlans(year) ==
    LET fy == get_fiscal_year_range(year)[1] IN
    {[cs |-> NaT, ce |-> NaT, ps |-> NaT, pe |-> NaT],
     [cs |-> fy + 40, ce |-> NaT, ps |-> NaT, pe |-> fy + 90],
     [cs |-> NaT, ce |-> fy + 200, ps |-> fy + 60, pe |-> NaT],
     [cs |-> fy + 40, ce |-> fy + 200, ps |-> fy + 60, pe |-> fy + 90]}

AggRow(amount, s, e, c) ==
    [orderAmount |-> RInt(amount), plannedCost |-> RInt(900), headcount |-> RInt(3),
     plannedStart |-> s, plannedEnd |-> e,
     collectionStart |-> c.cs, collectionEnd |-> c.ce,
     paymentStart |-> c.ps, paymentEnd |-> c.pe]

\* projects with an order amount, and projects not ordered yet (amount 0, no
\* collection or payment dates)
AggRows(year) ==
    {AggRow(1200, s, e, c) :
        s \in AggStarts(year), e \in AggEnds(year), c \in CashPlans(year)}
    \cup {AggRow(0, s, e, [cs |-> NaT, ce |-> NaT, ps |-> NaT, pe |-> NaT]) :
        s \in AggStarts(year), e \in AggEnds(year)}

Tables(rows) == UNION {[1..k -> rows] : k \in 0..MaxProjects}

(* ------------------------------------------------------------------ *)
(* State machine                                                       *)
(*   call  - the call of a core function in progress or just returned: *)
(*           its name, its arguments and its result (Pending before    *)
(*           the function has run)                                     *)
(*   clock - the date the system clock shows (date.today())            *)
(*   hist  - the previous completed call of enrich_projects            *)
(* ------------------------------------------------------------------ *)
NoCall == [fn |-> "none", args |-> <<>>, ret |-> <<>>, done |-> TRUE]

\* a call that has been made and has not run yet
Pending(fn, args) == [fn |-> fn, args |-> args, ret |-> <<>>, done |-> FALSE]

Returned(c, ret) == [c EXCEPT !.ret = ret, !.done = TRUE]

InitAlloc ==
    /\ clock = Date(2025, 9, 1)
    /\ hist = NoCall
    /\ \/ \E year \in FiscalYears, i \in 0..11 :
            LET w == MonthWindow(year, i)
                dates == RangeDates(year) \cup {NaT}
            IN \E value \in Amounts, start \in dates, end \in dates :
                 call = Pending("allocate_value",
                                [value |-> value, start |-> start, end |-> end,
                                 month_start |-> w[1], month_end |-> w[2]])
       \/ \E year \in FiscalYears :
            \E df \in Tables(AggRows(year)) :
                 call = Pending("compute_monthly_aggregation",
                                [df |-> df, year |-> year])

AllocateValue ==
    /\ call.fn = "allocate_value"
    /\ ~call.done
    /\ call' = Returned(call,
                    allocate_value(call.args.value, call.args.start, call.args.end,
                                   call.args.month_start, call.args.month_end))
    /\ UNCHANGED <<clock, hist>>

\* main(): compute_monthly_aggregation(filtered_df, get_fiscal_year_range(year))
ComputeMonthlyAggregation ==
    /\ call.fn = "compute_monthly_aggregation"
    /\ ~call.done
    /\ call' = Returned(call,
                    compute_monthly_aggregation(call.args.df,
                                                get_fiscal_year_range(call.args.year)))
    /\ UNCHANGED <<clock, hist>>

NextAlloc == AllocateValue \/ ComputeMonthlyAggregation

SpecAlloc == InitAlloc /\ [][NextAlloc]_vars

(* ------------------------------------------------------------------ *)
(* Properties of the proration and of the monthly aggregation          *)
(* ------------------------------------------------------------------ *)
RowSum(xs) == cumsum(xs, Len(xs))

\* the days that the range [start, end] shares with the window [from, to]
SharedDays(start, end, from, to) == {d \in start..end : from <= d /\ d <= to}

\* C1: allocate_value returns value * overlapDays / totalDays for every range
\* and window that intersect, with totalDays = (end - start) + 1 and
\* overlapDays = (min(end, windowEnd) - max(start, windowStart)) + 1; it returns
\* 0 when a range date is missing, when end < start, and when the range and
\* the window share no day.
C1_AllocateValueProration ==
    (call.fn = "allocate_value" /\ call.done) =>
        LET a == call.args IN
        IF a.start = NaT \/ a.end = NaT THEN call.ret = Zero
        ELSE IF a.end < a.start THEN call.ret = Zero
        ELSE IF SharedDays(a.start, a.end, a.month_start, a.month_end) = {}
             THEN call.ret = Zero
        ELSE LET totalDays == (a.end - a.start) + 1
                 overlapDays == (Min(a.end, a.month_end)
                                 - Max(a.start, a.month_start)) + 1
             IN call.ret = RMul(a.value, Rat(overlapDays, totalDays))

\* a range that lies partly inside the window was prorated to a nonzero share
C1_Witness ==
    /\ call.fn = "allocate_value" /\ call.done
    /\ call.args.start # NaT /\ call.args.end # NaT
    /\ call.args.start < call.args.month_start
    /\ call.args.end > call.args.month_start
    /\ call.args.end < call.args.month_end
    /\ call.ret # Zero
    /\ call.ret # call.args.value

HasRange(row) ==
    row.plannedStart # NaT /\ row.plannedEnd # NaT /\ row.plannedStart <= row.plannedEnd

InsideFiscalYear(row, year) ==
    /\ get_fiscal_year_range(year)[1] <= row.plannedStart
    /\ row.plannedEnd <= Date(year + 1, FISCAL_START_MONTH, 1) - 1

\* value * (days of the row's range inside the fiscal year) / (days of the range)
FiscalShare(value, row, year) ==
    LET inside == SharedDays(row.plannedStart, row.plannedEnd,
                             Date(year, FISCAL_START_MONTH, 1),
                             Date(year + 1, FISCAL_START_MONTH, 1) - 1)
    IN RMul(value, Rat(Cardinality(inside), (row.plannedEnd - row.plannedStart) + 1))

\* C2: proration additivity.  For projects whose range has start <= end, the
\* prorated amounts of the 12 months of the fiscal year add up to
\* value * (days of the range inside the fiscal year) / (days of the range),
\* and to value itself when the range lies inside the fiscal year.
C2_ProrationAdditivity ==
    (/\ call.fn = "compute_monthly_aggregation" /\ call.done
     /\ \A k \in 1..Len(call.args.df) : HasRange(call.args.df[k])) =>
        LET df == call.args.df
            year == call.args.year
            revenue == RowSum([k \in 1..Len(call.ret) |-> call.ret[k].revenue])
            cost == RowSum([k \in 1..Len(call.ret) |-> call.ret[k].plannedCost])
        IN /\ revenue = RowSum([k \in 1..Len(df) |->
                                    FiscalShare(df[k].orderAmount, df[k], year)])
           /\ cost = RowSum([k \in 1..Len(df) |->
                                    FiscalShare(df[k].plannedCost, df[k], year)])
           /\ (\A k \in 1..Len(df) : InsideFiscalYear(df[k], year)) =>
                  /\ revenue = RowSum([k \in 1..Len(df) |-> df[k].orderAmount])
                  /\ cost = RowSum([k \in 1..Len(df) |-> df[k].plannedCost])

\* a project spanning several months, partly outside the fiscal year, was
\* aggregated: part of its amount, and not all of it, falls in the fiscal year
C2_Witness ==
    /\ call.fn = "compute_monthly_aggregation" /\ call.done
    /\ Len(call.args.df) >= 1
    /\ HasRange(call.args.df[1])
    /\ ~InsideFiscalYear(call.args.df[1], call.args.year)
    /\ call.args.df[1].plannedEnd - call.args.df[1].plannedStart > 31
    /\ call.ret[1].plannedCost # Zero
    /\ call.ret[2].plannedCost # Zero
    /\ RowSum([k \in 1..Len(call.ret) |-> call.ret[k].plannedCost])
           # RowSum([k \in 1..Len(call.args.df) |-> call.args.df[k].plannedCost])

NumericFields ==
    {"revenue", "plannedCost", "grossProfit", "grossMarginPct", "manpower",
     "cashIn", "cashOut", "cashFlow", "cumulativeCashFlow"}

\* C10: over the range of get_fiscal_year_range(year) the aggregation yields
\* exactly 12 buckets, whose month starts are the consecutive first-of-month
\* dates from July of the year to June of the next, with or without projects;
\* with no project every numeric field of every bucket is 0.
C10_TwelveMonthBuckets ==
    (call.fn = "compute_monthly_aggregation" /\ call.done) =>
        /\ Len(call.ret) = 12
        /\ \A k \in 1..12 :
              call.ret[k].month =
                  Date(IF k <= 6 THEN call.args.year ELSE call.args.year + 1,
                       IF k <= 6 THEN k + 6 ELSE k - 6, 1)
        /\ call.args.df = <<>> =>
              \A k \in 1..12 : \A f \in NumericFields : call.ret[k][f] = Zero

\* the empty table was aggregated for fiscal year 2025
C10_Witness ==
    /\ call.fn = "compute_monthly_aggregation" /\ call.done
    /\ call.args.df = <<>>
    /\ call.args.year = DEFAULT_FISCAL_YEAR
    /\ call.ret[1].month = Date(2025, 7, 1)
    /\ call.ret[12].month = Date(2026, 6, 1)

\* C11: in every result of compute_monthly_aggregation each bucket has
\* grossProfit = revenue - plannedCost and cashFlow = cashIn - cashOut, and the
\* cumulativeCashFlow of the k-th bucket is the sum of cashFlow over the
\* buckets 1..k in month order (the first bucket's equals its own cashFlow).
C11_MonthlyBucketInvariants ==
    (call.fn = "compute_monthly_aggregation" /\ call.done) =>
        LET flows == [k \in 1..Len(call.ret) |-> call.ret[k].cashFlow] IN
        /\ \A k \in 1..Len(call.ret) :
              /\ call.ret[k].grossProfit
                    = RSub(call.ret[k].revenue, call.ret[k].plannedCost)
              /\ call.ret[k].cashFlow
                    = RSub(call.ret[k].cashIn, call.ret[k].cashOut)
              /\ call.ret[k].cumulativeCashFlow = cumsum(flows, k)
              /\ k > 1 => call.ret[k - 1].month < call.ret[k].month
        /\ Len(call.ret) >= 1 => call.ret[1].cumulativeCashFlow = call.ret[1].cashFlow

\* a project was aggregated whose cash comes in and goes out in different
\* months: the running total differs from the month's own cash flow
C11_Witness ==
    /\ call.fn = "compute_monthly_aggregation" /\ call.done
    /\ Len(call.args.df) >= 1
    /\ \E k \in 2..Len(call.ret) :
          /\ call.ret[k].cashFlow # Zero
          /\ call.ret[k - 1].cumulativeCashFlow # Zero
          /\ call.ret[k].cumulativeCashFlow # call.ret[k].cashFlow
          /\ call.ret[k].grossProfit # Zero

(* ------------------------------------------------------------------ *)
(* calculate_expected_progress and determine_risk_level                *)
(*   fields of a row: overBudget = yosan-chouka, progressGap =         *)
(*   shinchoku-sai, delayDays = chien-nissuu, manualRisk = risuku-     *)
(*   doai, riskMemo = risuku-memo, actualStart = jissai-chakkou-bi     *)
(* ------------------------------------------------------------------ *)
\* variant: the span counts its first day too
calculate_expected_progress_inclusiveTotal(row, today) ==
    LET start == PyOr(coerce_date(row.plannedStart), coerce_date(row.actualStart))
        end == coerce_date(row.plannedEnd)
    IN IF ~Truthy(start) \/ ~Truthy(end) \/ start >= end THEN Zero
       ELSE IF today <= start THEN Zero
       ELSE IF today >= end THEN RInt(100)
       ELSE RMul(Rat(today - start, (end - start) + 1), RInt(100))

\* variant: both the elapsed days and the span count their first day
calculate_expected_progress_inclusiveDays(row, today) ==
    LET start == PyOr(coerce_date(row.plannedStart), coerce_date(row.actualStart))
        end == coerce_date(row.plannedEnd)
    IN IF ~Truthy(start) \/ ~Truthy(end) \/ start >= end THEN Zero
       ELSE IF today <= start THEN Zero
       ELSE IF today >= end THEN RInt(100)
       ELSE RMul(Rat((today - start) + 1, (end - start) + 1), RInt(100))

\* variant: today is compared with the dates before the span is tested
calculate_expected_progress_todayFirst(row, today) ==
    LET start == PyOr(coerce_date(row.plannedStart), coerce_date(row.actualStart))
        end == coerce_date(row.plannedEnd)
    IN IF ~Truthy(start) \/ ~Truthy(end) THEN Zero
       ELSE IF today <= start THEN Zero
       ELSE IF today >= end THEN RInt(100)
       ELSE IF start >= end THEN Zero
       ELSE RMul(Rat(today - start, end - start), RInt(100))

calculate_expected_progress(row, today) ==
    LET start == PyOr(coerce_date(row.plannedStart), coerce_date(row.actualStart))
        end == coerce_date(row.plannedEnd)
    IN IF ~Truthy(start) \/ ~Truthy(end) \/ start >= end THEN Zero
       ELSE IF today <= start THEN Zero
       ELSE IF today >= end THEN RInt(100)
       ELSE LET total_days == end - start
                elapsed_days == today - start
                pct == RMul(Rat(elapsed_days, total_days), RInt(100))
            IN IF RLt(pct, Zero) THEN Zero
               ELSE IF RLt(RInt(100), pct) THEN RInt(100) ELSE pct

risk_order == ("Low" :> 0) @@ ("Mid" :> 1) @@ ("High" :> 2)

\* str(value).strip() on the values a risk cell takes
strip(text) == IF text = " High " THEN "High" ELSE text

\* bool(text): the empty string is false; "nan", the float NaN of a blank
\* cell, is true like every other text
TruthyText(text) == text # ""

Append1(reasons, r) == reasons \o <<r>>

\* level = "Low"; reasons = []
risk_start == [level |-> "Low", reasons |-> <<>>]

step_budget(row, st) ==
    IF row.overBudget
    THEN [level |-> "High", reasons |-> Append1(st.reasons, "OverBudget")]
    ELSE st

step_progress(row, st) ==
    IF RLt(row.progressGap, RInt(-30))
    THEN [level |-> "High", reasons |-> Append1(st.reasons, "MajorSlip")]
    ELSE IF RLt(row.progressGap, RInt(-10)) /\ risk_order[st.level] < risk_order["Mid"]
    THEN [level |-> "Mid", reasons |-> Append1(st.reasons, "Slip")]
    ELSE st

step_delay(row, st) ==
    IF row.delayDays > 0
    THEN [level |-> "High",
          reasons |-> Append1(st.reasons, "Delay" \o ToString(row.delayDays) \o "d")]
    ELSE st

\* variant: the manual level replaces the computed level
step_manual_assign(row, st) ==
    LET manual_level == strip(row.manualRisk)
    IN IF manual_level \in DOMAIN risk_order
       THEN [level |-> manual_level,
             reasons |-> IF manual_level # "" /\ manual_level # "Low"
                         THEN Append1(st.reasons, "Manual:" \o manual_level)
                         ELSE st.reasons]
       ELSE st

\* variant: the annotation is added only when the manual level raised the level
step_manual_onlyWhenRaised(row, st) ==
    LET manual_level == strip(row.manualRisk)
    IN IF manual_level \in DOMAIN risk_order
          /\ risk_order[manual_level] > risk_order[st.level]
       THEN [level |-> manual_level,
             reasons |-> Append1(st.reasons, "Manual:" \o manual_level)]
       ELSE st

step_manual(row, st) ==
    LET manual_level == strip(row.manualRisk)
    IN IF manual_level \in DOMAIN risk_order
       THEN [level |-> IF risk_order[manual_level] > risk_order[st.level]
                       THEN manual_level ELSE st.level,
             reasons |-> IF manual_level # "" /\ manual_level # "Low"
                         THEN Append1(st.reasons, "Manual:" \o manual_level)
                         ELSE st.reasons]
       ELSE st

\* variant: the memo sets the level whether or not a reason was recorded
step_note_unguarded(row, st) ==
    IF TruthyText(row.riskMemo)
    THEN [level |-> "Mid", reasons |-> Append1(st.reasons, row.riskMemo)]
    ELSE st

\* variant: the memo is recorded as a reason and the level is kept
step_note_keepLevel(row, st) ==
    IF st.reasons = <<>> /\ TruthyText(row.riskMemo)
    THEN [level |-> st.level, reasons |-> Append1(st.reasons, row.riskMemo)]
    ELSE st

step_note(row, st) ==
    IF st.reasons = <<>> /\ TruthyText(row.riskMemo)
    THEN [level |-> "Mid", reasons |-> Append1(st.reasons, row.riskMemo)]
    ELSE st

\* the (level, reasons) after each of the five rule steps, in order
risk_trace(row) ==
    LET s1 == step_budget(row, risk_start)
        s2 == step_progress(row, s1)
        s3 == step_delay(row, s2)
        s4 == step_manual(row, s3)
        s5 == step_note(row, s4)
    IN <<risk_start, s1, s2, s3, s4, s5>>

\* list(dict.fromkeys([r for r in reasons if r]))
RECURSIVE unique_reasons(_, _)
unique_reasons(reasons, k) ==
    IF k = 0 THEN <<>>
    ELSE LET before == unique_reasons(reasons, k - 1)
         IN IF reasons[k] = "" \/ \E j \in 1..Len(before) : before[j] = reasons[k]
            THEN before ELSE Append1(before, reasons[k])

\* ",".join(reasons); "," stands for the ideographic comma
RECURSIVE join(_, _)
join(reasons, k) ==
    IF k = 0 THEN ""
    ELSE IF k = 1 THEN reasons[1]
    ELSE join(reasons, k - 1) \o "," \o reasons[k]

risk_comment(reasons) ==
    LET kept == unique_reasons(reasons, Len(reasons))
        text == join(kept, Len(kept))
    IN IF text = "" THEN "Stable" ELSE text

determine_risk_level(row) ==
    LET final == risk_trace(row)[6]
    IN [level |-> final.level, comment |-> risk_comment(final.reasons),
        trace |-> risk_trace(row)]

(* ------------------------------------------------------------------ *)
(* Inputs of the risk engine                                           *)
(* ------------------------------------------------------------------ *)
ProgressGaps == {RInt(-40), RInt(-31), RInt(-30), Rat(-41, 2), RInt(-11), RInt(-10),
                 Zero, Rat(215, 28)}
DelayDayValues == {0, 1, 5}
ManualRiskValues == {"", "Low", "Mid", "High", " High ", "nan", "Other"}
RiskMemoValues == {"", "nan", "note", "Stable"}

ProgressDates ==
    {Date(2025, 7, 9), Date(2025, 7, 10), Date(2025, 9, 1), Date(2025, 10, 1),
     Date(2025, 10, 6), Date(2025, 10, 11), Date(2025, 10, 30), Date(2025, 10, 31)}

InitRisk ==
    /\ clock = Date(2025, 9, 1)
    /\ hist = NoCall
    /\ \/ \E b \in BOOLEAN, gap \in ProgressGaps, delay \in DelayDayValues,
             manual \in ManualRiskValues, memo \in RiskMemoValues :
            call = Pending("determine_risk_level",
                           [overBudget |-> b, progressGap |-> gap, delayDays |-> delay,
                            manualRisk |-> manual, riskMemo |-> memo])
       \/ \E start \in ProgressDates \cup {NaT}, actual \in {NaT, Date(2025, 7, 10)},
             end \in ProgressDates \cup {NaT}, today \in ProgressDates :
            call = Pending("calculate_expected_progress",
                           [row |-> [plannedStart |-> start, actualStart |-> actual,
                                     plannedEnd |-> end],
                            today |-> today])

DetermineRiskLevel ==
    /\ call.fn = "determine_risk_level"
    /\ ~call.done
    /\ call' = Returned(call, determine_risk_level(call.args))
    /\ UNCHANGED <<clock, hist>>

CalculateExpectedProgress ==
    /\ call.fn = "calculate_expected_progress"
    /\ ~call.done
    /\ call' = Returned(call, calculate_expected_progress(call.args.row, call.args.today))
    /\ UNCHANGED <<clock, hist>>

NextRisk == DetermineRiskLevel \/ CalculateExpectedProgress

SpecRisk == InitRisk /\ [][NextRisk]_vars

(* ------------------------------------------------------------------ *)
(* Properties of the risk engine                                       *)
(* ------------------------------------------------------------------ *)
RiskReturned == call.fn = "determine_risk_level" /\ call.done

\* C3: risk monotonicity.  determine_risk_level never returns level "Low" when
\* the row is over budget, or its progress gap is below -30, or it has delay
\* days, or its manual risk level is "High", whatever the other signals and
\* the risk memo are.
C3_RiskNeverLowOnSignal ==
    (/\ RiskReturned
     /\ \/ call.args.overBudget
        \/ RLt(call.args.progressGap, RInt(-30))
        \/ call.args.delayDays > 0
        \/ call.args.manualRisk = "High") =>
        call.ret.level # "Low"

\* an over-budget row with manual level "Low" and a risk memo was rated "High"
C3_Witness ==
    /\ RiskReturned
    /\ call.args.overBudget
    /\ call.args.manualRisk = "Low"
    /\ call.args.riskMemo = "note"
    /\ call.ret.level = "High"

\* the highest severity among the rules whose condition holds for the signals
MaxFiredSeverity(a) ==
    LET manual == strip(a.manualRisk)
        noReason == /\ ~a.overBudget
                    /\ ~RLt(a.progressGap, RInt(-10))
                    /\ a.delayDays <= 0
                    /\ manual \notin {"Mid", "High"}
        fired == (IF a.overBudget THEN {2} ELSE {})
                 \cup (IF RLt(a.progressGap, RInt(-30)) THEN {2}
                       ELSE IF RLt(a.progressGap, RInt(-10)) THEN {1} ELSE {})
                 \cup (IF a.delayDays > 0 THEN {2} ELSE {})
                 \cup (IF manual \in {"Low", "Mid", "High"}
                       THEN {risk_order[manual]} ELSE {})
                 \cup (IF noReason /\ a.riskMemo # "" THEN {1} ELSE {})
                 \cup {0}
    IN CHOOSE m \in fired : \A x \in fired : x <= m

\* C4: within one evaluation the level never decreases from one rule step to
\* the next (budget, progress, delay, manual override, memo fallback); the
\* returned level is the highest severity among the rules that fired, so it
\* is never below a valid manual level; and the memo step never lowers a
\* level that was already "High".
C4_SeverityOnlyIncreases ==
    RiskReturned =>
        LET trace == call.ret.trace
            manual == strip(call.args.manualRisk)
        IN /\ \A k \in 1..5 :
                 risk_order[trace[k].level] <= risk_order[trace[k + 1].level]
           /\ risk_order[call.ret.level] = MaxFiredSeverity(call.args)
           /\ manual \in {"Low", "Mid", "High"} =>
                 risk_order[call.ret.level] >= risk_order[manual]
           /\ trace[5].level = "High" => call.ret.level = "High"

\* a row rated "High" before the memo step, carrying a memo, stayed "High"
C4_Witness ==
    /\ RiskReturned
    /\ call.ret.trace[5].level = "High"
    /\ call.args.riskMemo = "note"
    /\ call.args.manualRisk = "Mid"
    /\ call.ret.level = "High"

ProgressReturned == call.fn = "calculate_expected_progress" /\ call.done

\* the start date the progress is measured from: planned, else actual
ProgressStart(row) == IF row.plannedStart # NaT THEN row.plannedStart ELSE row.actualStart

\* C6: expected progress boundary.  For start < end the expected progress is
\* 0 for today <= start, 100 for today >= end, elapsedDays / totalDays * 100
\* with totalDays = end - start in between, always within [0, 100], and it
\* does not decrease when today advances; start 2025-10-01, end 2025-10-11,
\* today 2025-10-06 gives 50.
C6_ExpectedProgressBoundary ==
    (/\ ProgressReturned
     /\ ProgressStart(call.args.row) # NaT
     /\ call.args.row.plannedEnd # NaT
     /\ ProgressStart(call.args.row) < call.args.row.plannedEnd) =>
        LET start == ProgressStart(call.args.row)
            end == call.args.row.plannedEnd
            today == call.args.today
        IN /\ today <= start => call.ret = Zero
           /\ today >= end => call.ret = RInt(100)
           /\ (start < today /\ today < end) =>
                 call.ret = RMul(Rat(today - start, end - start), RInt(100))
           /\ RLe(Zero, call.ret) /\ RLe(call.ret, RInt(100))
           /\ RLe(call.ret, calculate_expected_progress(call.args.row, today + 1))
           /\ (start = Date(2025, 10, 1) /\ end = Date(2025, 10, 11)
               /\ today = Date(2025, 10, 6)) => call.ret = RInt(50)

\* the example: half of the span 2025-10-01 .. 2025-10-11 has elapsed
C6_Witness ==
    /\ ProgressReturned
    /\ call.args.row.plannedStart = Date(2025, 10, 1)
    /\ call.args.row.plannedEnd = Date(2025, 10, 11)
    /\ call.args.today = Date(2025, 10, 6)
    /\ call.ret = RInt(50)

(* ------------------------------------------------------------------ *)
(* load_projects and enrich_projects                                   *)
(*   columns: orderPlannedAmount = juchuu-yotei-gaku, budgetCost =     *)
(*   yosan-genka, actualCost = jisseki-genka, progressPct = shinchoku- *)
(*   ritsu, actualEnd = jissai-shunkou-bi, status = suteetasu,         *)
(*   valueChain = baryuu-cheen-koutei                                  *)
(*   statuses "Estimate" = mitsumori, "Ordered" = juchuu, "InProgress" *)
(*   = sekou-chuu, "Done" = kanryou; stages "Procurement" = genzairyou-*)
(*   choutatsu, "Preparation" = sekou-junbi, "Construction" = sekou,   *)
(*   "Inspection" = kensa, "Handover" = hikiwatashi                    *)
(* ------------------------------------------------------------------ *)
\* the float NaN of a blank numeric cell
NaN == [n |-> 0, d |-> 0]

\* Series.fillna(0.0)
fillna0(x) == IF x = NaN THEN Zero ELSE x

NumericColumns ==
    {"orderPlannedAmount", "orderAmount", "budgetCost", "plannedCost", "actualCost",
     "progressPct"}

\* load_projects: numeric cells are coerced and blank ones filled with 0.0;
\* date cells are dates or NaT; the text cells are kept as read
load_projects(raw) ==
    [k \in 1..Len(raw) |->
        [f \in DOMAIN raw[k] |->
            IF f \in NumericColumns THEN fillna0(raw[k][f]) ELSE raw[k][f]]]

STATUS_VALUE_CHAIN_MAP ==
    ("Estimate" :> "Procurement") @@ ("Ordered" :> "Preparation")
        @@ ("InProgress" :> "Construction") @@ ("Done" :> "Handover")

\* a numeric column that the table lacks is added with the default 0.0
numeric_column(row, column) == IF column \in DOMAIN row THEN row[column] ELSE Zero

value_chain(row) ==
    IF strip(row.valueChain) = ""
    THEN IF row.status \in DOMAIN STATUS_VALUE_CHAIN_MAP
         THEN STATUS_VALUE_CHAIN_MAP[row.status] ELSE "Construction"
    ELSE row.valueChain

gross_profit(row) ==
    RSub(numeric_column(row, "orderAmount"), numeric_column(row, "plannedCost"))

\* variant: the ratio is taken whatever the order amount
cost_ratio_unguarded(row) ==
    RMul(RDiv(numeric_column(row, "plannedCost"), numeric_column(row, "orderAmount")),
         RInt(100))

cost_ratio(row) ==
    IF numeric_column(row, "orderAmount") # Zero
    THEN RMul(RDiv(numeric_column(row, "plannedCost"), numeric_column(row, "orderAmount")),
              RInt(100))
    ELSE Zero

order_variance(row) ==
    RSub(numeric_column(row, "orderAmount"), numeric_column(row, "orderPlannedAmount"))

\* variant: the budget is compared the wrong way round
budget_variance_reversed(row) ==
    RSub(numeric_column(row, "budgetCost"), numeric_column(row, "plannedCost"))

budget_variance(row) ==
    RSub(numeric_column(row, "plannedCost"), numeric_column(row, "budgetCost"))

completed_value(row) ==
    RMul(numeric_column(row, "orderAmount"),
         RDiv(numeric_column(row, "progressPct"), RInt(100)))

realized_gross_profit(row) ==
    RSub(numeric_column(row, "orderAmount"), numeric_column(row, "actualCost"))

\* (actual_end - planned_end).dt.days without where(delay > 0, 0)
delay_days_signed(row) ==
    IF row.actualEnd = NaT \/ row.plannedEnd = NaT THEN 0
    ELSE row.actualEnd - row.plannedEnd

\* (actual_end - planned_end).dt.days, then where(delay > 0, 0).fillna(0)
delay_days(row) ==
    IF row.actualEnd = NaT \/ row.plannedEnd = NaT THEN 0
    ELSE IF row.actualEnd - row.plannedEnd > 0 THEN row.actualEnd - row.plannedEnd ELSE 0

enrich_row(row, today) ==
    LET expected == calculate_expected_progress(row, today)
        gap == RSub(numeric_column(row, "progressPct"), expected)
        over == RLt(Zero, budget_variance(row))
        risk == determine_risk_level(
                    [overBudget |-> over, progressGap |-> gap,
                     delayDays |-> delay_days(row),
                     manualRisk |-> row.manualRisk, riskMemo |-> row.riskMemo])
    IN [id |-> row.id,
        valueChain |-> value_chain(row),
        grossProfit |-> gross_profit(row),
        costRatioPct |-> cost_ratio(row),
        orderVariance |-> order_variance(row),
        budgetVariance |-> budget_variance(row),
        isOverBudget |-> over,
        completedValue |-> completed_value(row),
        realizedGrossProfit |-> realized_gross_profit(row),
        expectedProgressPct |-> expected,
        progressVariance |-> gap,
        delayDays |-> delay_days(row),
        riskLevel |-> risk.level,
        riskComment |-> risk.comment]

\* variant: rows without both planned dates are left out
enrich_projects_dropUndated(df, today) ==
    LET dated == SelectSeq(df, LAMBDA row : row.plannedStart # NaT /\ row.plannedEnd # NaT)
    IN [k \in 1..Len(dated) |-> enrich_row(dated[k], today)]

\* the derived columns of every row, in row order, for the date that
\* date.today() returned
enrich_projects(df, today) == [k \in 1..Len(df) |-> enrich_row(df[k], today)]

(* ------------------------------------------------------------------ *)
(* Inputs of the enrichment: the rows of projects.csv                  *)
(* ------------------------------------------------------------------ *)
\* the number of days the system clock advances
MaxTicks == 1

FinanceProfiles ==
    {[orderAmount |-> RInt(25000000), plannedCost |-> RInt(19000000),
      orderPlannedAmount |-> RInt(24000000), budgetCost |-> RInt(18000000),
      actualCost |-> RInt(13500000)],
     [orderAmount |-> NaN, plannedCost |-> NaN, orderPlannedAmount |-> NaN,
      budgetCost |-> NaN, actualCost |-> NaN],
     [orderAmount |-> RInt(0), plannedCost |-> RInt(500), orderPlannedAmount |-> NaN,
      budgetCost |-> RInt(500), actualCost |-> RInt(0)],
     [orderAmount |-> RInt(1000), plannedCost |-> RInt(600),
      orderPlannedAmount |-> RInt(1200), budgetCost |-> RInt(700),
      actualCost |-> RInt(650)]}

ScheduleProfiles ==
    {[plannedStart |-> Date(2025, 7, 10), plannedEnd |-> Date(2025, 10, 30),
      actualStart |-> NaT, actualEnd |-> NaT, progressPct |-> RInt(55),
      status |-> "InProgress", valueChain |-> ""],
     [plannedStart |-> NaT, plannedEnd |-> NaT,
      actualStart |-> NaT, actualEnd |-> NaT, progressPct |-> NaN,
      status |-> "Estimate", valueChain |-> ""],
     [plannedStart |-> Date(2025, 10, 30), plannedEnd |-> Date(2025, 7, 10),
      actualStart |-> NaT, actualEnd |-> Date(2025, 11, 5), progressPct |-> RInt(55),
      status |-> "Other", valueChain |-> ""],
     [plannedStart |-> NaT, plannedEnd |-> Date(2025, 10, 30),
      actualStart |-> Date(2025, 7, 10), actualEnd |-> Date(2025, 10, 25),
      progressPct |-> RInt(10), status |-> "Done", valueChain |-> "Inspection"],
     [plannedStart |-> Date(2025, 7, 10), plannedEnd |-> Date(2025, 8, 20),
      actualStart |-> Date(2025, 7, 10), actualEnd |-> Date(2025, 8, 25),
      progressPct |-> RInt(100), status |-> "Ordered", valueChain |-> ""],
     [plannedStart |-> Date(2025, 7, 10), plannedEnd |-> NaT,
      actualStart |-> Date(2025, 7, 10), actualEnd |-> Date(2025, 8, 25),
      progressPct |-> RInt(100), status |-> "Done", valueChain |-> ""]}

LabelProfiles ==
    {[id |-> "P001", manualRisk |-> "nan", riskMemo |-> "nan"],
     [id |-> "P001", manualRisk |-> "High", riskMemo |-> ""],
     [id |-> "P002", manualRisk |-> "nan", riskMemo |-> "nan"],
     [id |-> "P002", manualRisk |-> "Low", riskMemo |-> "note"]}

CsvRows == {f @@ s @@ l : f \in FinanceProfiles, s \in ScheduleProfiles, l \in LabelProfiles}

(* ------------------------------------------------------------------ *)
(* The dashboard reruns: the clock advances, the table is enriched     *)
(* ------------------------------------------------------------------ *)
InitEnrich ==
    /\ clock = Date(2025, 9, 1)
    /\ hist = NoCall
    /\ \E raw \in Tables(CsvRows) :
          call = Pending("enrich_projects", [raw |-> raw, df |-> load_projects(raw)])

\* midnight passes
Tick ==
    /\ clock < Date(2025, 9, 1) + MaxTicks
    /\ clock' = clock + 1
    /\ UNCHANGED <<call, hist>>

\* variant: today is the date remembered from the previous rerun
EnrichProjects_staleToday ==
    /\ call.fn = "enrich_projects"
    /\ hist' = IF call.done THEN call ELSE hist
    /\ call' = Returned(call,
                   [at |-> clock,
                    table |-> enrich_projects(call.args.df,
                                              IF call.done THEN call.ret.at ELSE clock)])
    /\ UNCHANGED clock

\* a rerun of the page: enrich_projects(df), with today = date.today()
EnrichProjects ==
    /\ call.fn = "enrich_projects"
    /\ hist' = IF call.done THEN call ELSE hist
    /\ call' = Returned(call,
                   [at |-> clock, table |-> enrich_projects(call.args.df, clock)])
    /\ UNCHANGED clock

NextEnrich == Tick \/ EnrichProjects

SpecEnrich == InitEnrich /\ [][NextEnrich]_vars

(* ------------------------------------------------------------------ *)
(* Properties of the enrichment                                        *)
(* ------------------------------------------------------------------ *)
EnrichReturned == call.fn = "enrich_projects" /\ call.done

\* two completed calls of enrich_projects on identical input rows
TwoCallsSameRows == EnrichReturned /\ hist.fn = "enrich_projects" /\ hist.args = call.args

Approx(x, tenths) == 2 * Abs(10 * x.n - tenths * x.d) <= x.d

\* the project of the end-to-end scenario, enriched on 2025-09-01
IsScenarioRow(k) ==
    /\ EnrichReturned
    /\ call.ret.at = Date(2025, 9, 1)
    /\ k \in 1..Len(call.args.df)
    /\ call.args.df[k].plannedStart = Date(2025, 7, 10)
    /\ call.args.df[k].plannedEnd = Date(2025, 10, 30)
    /\ call.args.df[k].progressPct = RInt(55)

\* C7 as stated: for plannedStart 2025-07-10, plannedEnd 2025-10-30, progress
\* 55 and today 2025-09-01 the expected progress is about 47.8 (day 54 of a
\* 113-day span) and the progress variance about +7.2.
C7_ScenarioDay54Of113 ==
    \A k \in 1..MaxProjects + 1 :
        IsScenarioRow(k) =>
            /\ Approx(call.ret.table[k].expectedProgressPct, 478)
            /\ Approx(call.ret.table[k].progressVariance, 72)

\* C7 amended: for that project the expected progress is 53 elapsed days of
\* the 112 days from start to end, about 47.3, and the progress variance is
\* about +7.7.
C7_ScenarioDay53Of112 ==
    \A k \in 1..MaxProjects + 1 :
        IsScenarioRow(k) =>
            /\ call.ret.table[k].expectedProgressPct = RMul(Rat(53, 112), RInt(100))
            /\ Approx(call.ret.table[k].expectedProgressPct, 473)
            /\ Approx(call.ret.table[k].progressVariance, 77)

\* the scenario project was enriched on 2025-09-01
C7_Witness ==
    /\ IsScenarioRow(1)
    /\ call.ret.table[1].expectedProgressPct # Zero
    /\ call.ret.table[1].progressVariance = Rat(215, 28)

\* C8: for every row grossProfit = orderAmount - plannedCost, costRatioPct =
\* plannedCost / orderAmount * 100 (0 when orderAmount = 0), orderVariance =
\* orderAmount - orderPlannedAmount, budgetVariance = plannedCost - budgetCost,
\* isOverBudget = (budgetVariance > 0), completedValue = orderAmount *
\* progressPct / 100 and realizedGrossProfit = orderAmount - actualCost; so
\* orderAmount 25,000,000, plannedCost 19,000,000, budgetCost 18,000,000 give
\* grossProfit 6,000,000, budgetVariance 1,000,000, isOverBudget, costRatioPct
\* 76 and risk level "High".
C8_FinancialFields ==
    EnrichReturned =>
        \A k \in 1..Len(call.args.df) :
            LET row == call.args.df[k]
                out == call.ret.table[k]
            IN /\ out.grossProfit = RSub(row.orderAmount, row.plannedCost)
               /\ row.orderAmount # Zero =>
                     out.costRatioPct = RMul(RInt(100), RDiv(row.plannedCost, row.orderAmount))
               /\ row.orderAmount = Zero => out.costRatioPct = Zero
               /\ out.orderVariance = RSub(row.orderAmount, row.orderPlannedAmount)
               /\ out.budgetVariance = RSub(row.plannedCost, row.budgetCost)
               /\ out.isOverBudget = RLt(Zero, out.budgetVariance)
               /\ out.completedValue
                     = RMul(RMul(row.orderAmount, Rat(1, 100)), row.progressPct)
               /\ out.realizedGrossProfit = RSub(row.orderAmount, row.actualCost)
               /\ (/\ row.orderAmount = RInt(25000000)
                   /\ row.plannedCost = RInt(19000000)
                   /\ row.budgetCost = RInt(18000000)) =>
                     /\ out.grossProfit = RInt(6000000)
                     /\ out.budgetVariance = RInt(1000000)
                     /\ out.isOverBudget
                     /\ out.costRatioPct = RInt(76)
                     /\ out.riskLevel = "High"

\* the example project, with no manual risk level, was enriched
C8_Witness ==
    /\ EnrichReturned
    /\ Len(call.args.df) >= 1
    /\ call.args.df[1].orderAmount = RInt(25000000)
    /\ call.args.df[1].plannedCost = RInt(19000000)
    /\ call.args.df[1].budgetCost = RInt(18000000)
    /\ call.args.df[1].manualRisk = "nan"
    /\ call.ret.table[1].costRatioPct = RInt(76)
    /\ call.ret.table[1].riskLevel = "High"

DerivedNumbers ==
    {"grossProfit", "costRatioPct", "orderVariance", "budgetVariance", "completedValue",
     "realizedGrossProfit", "expectedProgressPct", "progressVariance"}

MaxTasks == 2

\* a cell that holds no parseable date (pd.to_datetime(errors="coerce") -> NaT)
Unparseable == -3

\* pd.to_datetime(value, errors="coerce")
to_datetime(value) == IF value \in {NaT, None, Unparseable} THEN NaT ELSE value

\* Series.min() / Series.max() of the valid values; NaT when there is none
series_min(values) ==
    IF values \ {NaT} = {} THEN NaT
    ELSE CHOOSE x \in values \ {NaT} : \A y \in values \ {NaT} : x <= y

series_max(values) ==
    IF values \ {NaT} = {} THEN NaT
    ELSE CHOOSE x \in values \ {NaT} : \A y \in values \ {NaT} : x >= y

\* sorted(values): an ascending list is returned as it is; otherwise every
\* value goes to the position given by the number of values that are smaller,
\* or equal and earlier in the list (a stable sort)
sorted(values) ==
    CHOOSE out \in
        {IF \A i \in 1..(Len(v) - 1) : v[i] <= v[i + 1] THEN v
         ELSE CHOOSE out2 \in
                {[j \in 1..Len(v) |-> v[CHOOSE i \in 1..Len(v) : rank[i] = j]] :
                    rank \in {[i \in 1..Len(v) |->
                                 1 + Cardinality({k \in 1..Len(v) :
                                                    \/ v[k] < v[i]
                                                    \/ v[k] = v[i] /\ k < i})]}} : TRUE :
            v \in {values}} : TRUE

\* list(dict.fromkeys(values)): the first occurrence of every value, in order
\* (a strictly ascending list has no second occurrence; seen[i] = the number
\* of first occurrences among the first i values)
fromkeys(values) ==
    CHOOSE out \in
        {IF \A i \in 1..(Len(v) - 1) : v[i] < v[i + 1] THEN v
         ELSE CHOOSE out2 \in
                {[j \in 1..Cardinality(p[1]) |-> v[CHOOSE i \in p[1] : p[2][i] = j]] :
                    p \in {<<first, [i \in 1..Len(v) |->
                                       Cardinality({k \in first : k <= i})]>> :
                        first \in {{i \in 1..Len(v) :
                                      \A k \in 1..(i - 1) : v[k] # v[i]}}}} : TRUE :
            v \in {values}} : TRUE

\* {mark: label for mark, label in zip(marks, labels)}.get(mark, default):
\* the label written last under the key
dict_get(marks, labels, mark, default) ==
    LET n == Min(Len(marks), Len(labels))
        hits == {i \in 1..n : marks[i] = mark}
    IN IF hits = {} THEN default
       ELSE labels[CHOOSE i \in hits : \A j \in hits : j <= i]

\* variant: the domain is the fallback range alone, whatever the rows
time_domain_fallbackOnly(tasks, fallback_range) ==
    LET start_buffer == fallback_range[1] - 3
        end_buffer == fallback_range[2] + 3
    IN <<Date(YearOf(start_buffer), MonthOf(start_buffer), 1),
         month_end_of(Date(YearOf(end_buffer), MonthOf(end_buffer), 1))>>

\* variant: no buffer of three days around the earliest and latest date
time_domain_noBuffer(tasks, fallback_range) ==
    LET start_series == {to_datetime(tasks[k].plannedStart) : k \in 1..Len(tasks)}
        end_series == {to_datetime(tasks[k].plannedEnd) : k \in 1..Len(tasks)}
        start_ts == IF tasks # <<>> /\ start_series \ {NaT} # {}
                    THEN Min(fallback_range[1], series_min(start_series))
                    ELSE fallback_range[1]
        end_ts0 == IF tasks # <<>> /\ end_series \ {NaT} # {}
                   THEN Max(fallback_range[2], series_max(end_series))
                   ELSE fallback_range[2]
        end_ts == IF start_ts > end_ts0 THEN start_ts ELSE end_ts0
    IN <<Date(YearOf(start_ts), MonthOf(start_ts), 1),
         month_end_of(Date(YearOf(end_ts), MonthOf(end_ts), 1))>>

\* gen_time_marks, lines 1486-1509: (domain_start, domain_end)
time_domain(tasks, fallback_range) ==
    LET start_series == {to_datetime(tasks[k].plannedStart) : k \in 1..Len(tasks)}
        end_series == {to_datetime(tasks[k].plannedEnd) : k \in 1..Len(tasks)}
        start_ts == IF tasks # <<>> /\ start_series \ {NaT} # {}
                    THEN Min(fallback_range[1], series_min(start_series))
                    ELSE fallback_range[1]
        end_ts0 == IF tasks # <<>> /\ end_series \ {NaT} # {}
                   THEN Max(fallback_range[2], series_max(end_series))
                   ELSE fallback_range[2]
        end_ts == IF start_ts > end_ts0 THEN start_ts ELSE end_ts0
        start_buffer == start_ts - 3
        end_buffer == end_ts + 3
    IN <<Date(YearOf(start_buffer), MonthOf(start_buffer), 1),
         month_end_of(Date(YearOf(end_buffer), MonthOf(end_buffer), 1))>>

\* variant: the 30th is a candidate too
MinorDays_withThirtieth == <<6, 12, 18, 24, 30>>

MinorDays == <<6, 12, 18, 24>>

\* the minor marks of one month, as (mark, label) in the order of appending
RECURSIVE month_minor_marks(_, _, _, _, _)
month_minor_marks(month_start, month_end, domain_start, domain_end, i) ==
    IF i > Len(MinorDays)
    THEN IF month_end >= domain_start /\ month_end <= domain_end
         THEN << <<month_end, "MonthEnd">> >> ELSE <<>>
    ELSE (IF month_start + (MinorDays[i] - 1) < domain_start
             \/ month_start + (MinorDays[i] - 1) > domain_end
             \/ month_start + (MinorDays[i] - 1) > month_end
          THEN <<>>
          ELSE << <<month_start + (MinorDays[i] - 1), ToString(MinorDays[i]) \o "D">> >>)
         \o month_minor_marks(month_start, month_end, domain_start, domain_end, i + 1)

RECURSIVE minor_marks_from(_, _, _, _)
minor_marks_from(months, k, domain_start, domain_end) ==
    IF k > Len(months) THEN <<>>
    ELSE (CHOOSE marks \in
            {month_minor_marks(months[k], month_end, domain_start, domain_end, 1) :
                month_end \in {month_end_of(months[k])}} : TRUE)
         \o minor_marks_from(months, k + 1, domain_start, domain_end)

\* gen_time_marks, lines 1511-1539: the marks and labels of a domain
time_marks(domain) ==
    CHOOSE r \in
        {[major_marks |-> q[1],
          minor_marks |-> q[4],
          domain |-> domain,
          major_labels |-> [k \in 1..Len(q[1]) |-> ToString(MonthOf(q[1][k])) \o "M"],
          minor_labels |-> [k \in 1..Len(q[4]) |-> dict_get(q[2], q[3], q[4][k], "")]] :
            q \in {<<p[1], p[2], p[3], sorted(fromkeys(p[2]))>> :
                p \in {<<mp[1],
                         [i \in 1..Len(mp[2]) |-> mp[2][i][1]],
                         [i \in 1..Len(mp[2]) |-> mp[2][i][2]]>> :
                    mp \in {<<months,
                              minor_marks_from(months, 1, domain[1], domain[2])>> :
                        months \in {date_range_MS(domain[1], domain[2])}}}}} : TRUE

gen_time_marks(tasks, fallback_range) ==
    CHOOSE r \in {time_marks(domain) :
                     domain \in {time_domain(tasks, fallback_range)}} : TRUE

\* variant: the two lists are joined and not sorted
combine_tick_vals_unsorted(major_marks, minor_marks) ==
    fromkeys(major_marks \o minor_marks)

\* _combine_tick_vals
combine_tick_vals(major_marks, minor_marks) ==
    sorted(fromkeys(major_marks \o minor_marks))

\* _combine_tick_labels: the minor labels are written over the major labels
combine_tick_labels(major_marks, major_labels, minor_marks, minor_labels) ==
    CHOOSE r \in
        {[k \in 1..Len(combined_ticks) |->
             dict_get(minor_marks, minor_labels, combined_ticks[k],
                      dict_get(major_marks, major_labels, combined_ticks[k], ""))] :
            combined_ticks \in {combine_tick_vals(major_marks, minor_marks)}} : TRUE

(* ---- src/gantt_chart.py ---- *)
\* _ensure_datetime: the converted column; the call raises when no cell of the
\* column holds a date
ensure_datetime(series) == [k \in 1..Len(series) |-> to_datetime(series[k])]

ensure_datetime_raises(series) == \A k \in 1..Len(series) : to_datetime(series[k]) = NaT

\* month_start.strftime("%Y/%m")
strftime_Ym(ts) ==
    ToString(YearOf(ts)) \o "/" \o (IF MonthOf(ts) < 10 THEN "0" ELSE "")
    \o ToString(MonthOf(ts))

\* the candidates of one month from position i on that lie in the month
RECURSIVE gantt_day_marks(_, _, _)
gantt_day_marks(month_start, month_end, i) ==
    IF i > Len(MinorDays) THEN <<>>
    ELSE (IF month_start + (MinorDays[i] - 1) <= month_end
          THEN <<month_start + (MinorDays[i] - 1)>> ELSE <<>>)
         \o gantt_day_marks(month_start, month_end, i + 1)

\* the minor marks of the months up to position k, in the order of appending
RECURSIVE gantt_minor_marks(_, _)
gantt_minor_marks(months, k) ==
    IF k = 0 THEN <<>>
    ELSE gantt_minor_marks(months, k - 1)
         \o gantt_day_marks(months[k], month_end_of(months[k]), 1)
         \o (IF \E j \in 1..k : months[j] = month_end_of(months[k])
             THEN <<>> ELSE <<month_end_of(months[k])>>)

\* _build_axis_marks, lines 60-91: the marks of the months of a domain
gantt_marks(domain_start, domain_end) ==
    CHOOSE r \in
        {[error |-> "",
          tick_positions |-> q[3],
          tick_labels |-> [k \in 1..Len(q[3]) |-> dict_get(q[1], q[4], q[3][k], "")],
          major_marks |-> q[1],
          minor_marks |-> q[2],
          domain_start |-> domain_start,
          domain_end |-> domain_end] :
            q \in {<<p[1], p[2], fromkeys(sorted(p[1] \o p[2])),
                     [j \in 1..Len(p[1]) |-> strftime_Ym(p[1][j])]>> :
                p \in {<<months, fromkeys(sorted(gantt_minor_marks(months, Len(months))))>> :
                    months \in {date_range_MS(domain_start, domain_end)}}}} : TRUE

\* _build_axis_marks(starts, ends)
build_axis_marks(starts, ends) ==
    LET start_value == series_min(starts)
        end_value == series_max(ends)
    IN IF start_value = NaT \/ end_value = NaT
       THEN [error |-> "NoAxisValue"]
       ELSE CHOOSE r \in
              {gantt_marks(d[1], d[2]) :
                  d \in {<<Date(YearOf(start_value), MonthOf(start_value), 1),
                           month_end_of(Date(YearOf(end_value), MonthOf(end_value), 1))>>}} :
              TRUE

GanttColumns == {"name", "start", "end"}

\* the bars with duration = (end - start).days, the end day not counted
RECURSIVE gantt_bars_exclusive(_, _)
gantt_bars_exclusive(filtered, k) ==
    IF k > Len(filtered) THEN <<>>
    ELSE (IF filtered[k].end - filtered[k].start <= 0 THEN <<>>
          ELSE <<[project |-> filtered[k].name,
                  base |-> filtered[k].start,
                  duration |-> filtered[k].end - filtered[k].start]>>)
         \o gantt_bars_exclusive(filtered, k + 1)

\* the bars of the rows from position k on: one for every row of a positive
\* number of days
RECURSIVE gantt_bars(_, _)
gantt_bars(filtered, k) ==
    IF k > Len(filtered) THEN <<>>
    ELSE (IF (filtered[k].end - filtered[k].start) + 1 <= 0 THEN <<>>
          ELSE <<[project |-> filtered[k].name,
                  base |-> filtered[k].start,
                  duration |-> (filtered[k].end - filtered[k].start) + 1]>>)
         \o gantt_bars(filtered, k + 1)

\* the rows of working, from position k on, that have both dates and
\* end >= start
RECURSIVE gantt_filtered(_, _)
gantt_filtered(working, k) ==
    IF k > Len(working) THEN <<>>
    ELSE (IF working[k].start # NaT /\ working[k].end # NaT
             /\ working[k].end >= working[k].start
          THEN <<working[k]>> ELSE <<>>)
         \o gantt_filtered(working, k + 1)

\* create_project_gantt_chart(df): the error raised, or the axis and the bars
\* of the figure; df.columns are the columns present, df.rows the rows
create_project_gantt_chart(df) ==
    IF GanttColumns \ df.columns # {}
    THEN [error |-> "MissingColumns", axis |-> <<>>, bars |-> <<>>]
    ELSE IF ensure_datetime_raises([k \in 1..Len(df.rows) |-> df.rows[k].start])
            \/ ensure_datetime_raises([k \in 1..Len(df.rows) |-> df.rows[k].end])
    THEN [error |-> "NoValidDate", axis |-> <<>>, bars |-> <<>>]
    ELSE CHOOSE r \in
        {IF filtered = <<>>
         THEN [error |-> "NoValidRow", axis |-> <<>>, bars |-> <<>>]
         ELSE CHOOSE r2 \in
                {[error |-> axis_marks.error,
                  axis |-> axis_marks,
                  bars |-> IF axis_marks.error = "" THEN gantt_bars(filtered, 1) ELSE <<>>] :
                    axis_marks \in
                      {build_axis_marks({filtered[k].start : k \in 1..Len(filtered)},
                                        {filtered[k].end : k \in 1..Len(filtered)})}} : TRUE :
            filtered \in
              {gantt_filtered([k \in 1..Len(df.rows) |->
                                  [name |-> df.rows[k].name,
                                   start |-> ensure_datetime(
                                       [j \in 1..Len(df.rows) |-> df.rows[j].start])[k],
                                   end |-> ensure_datetime(
                                       [j \in 1..Len(df.rows) |-> df.rows[j].end])[k]]], 1)}} :
        TRUE

(* ---- inputs and state machine of the chart axes ---- *)
\* the rows of a timeline, their planned dates in days from the first day of
\* the fiscal year: a project inside the fiscal year, one reaching beyond both
\* ends of it, rows with the dates reversed (late and early), rows with one
\* date only, and a row with no date
TimelineDatePairs ==
    {<<10, 300>>, <<-60, 395>>, <<427, 395>>, <<-60, -90>>,
     <<None, -90>>, <<427, None>>, <<None, None>>}

TimelineRows(year) ==
    LET fy == get_fiscal_year_range(year)[1]
        cell(k) == IF k = None THEN NaT ELSE fy + k
    IN {[plannedStart |-> cell(p[1]), plannedEnd |-> cell(p[2])] :
           p \in TimelineDatePairs}

TaskTables(rows) == UNION {[1..k -> rows] : k \in 0..MaxTasks}

\* the rows of a Gantt source table: a task of several months, a task of one
\* day, a task with the dates reversed, and tasks with a cell that is empty or
\* holds no date
GanttRows ==
    {[name |-> "A", start |-> Date(2025, 7, 15), end |-> Date(2026, 2, 28)],
     [name |-> "B", start |-> Date(2025, 12, 31), end |-> Date(2026, 2, 28)],
     [name |-> "A", start |-> Date(2025, 12, 31), end |-> Date(2025, 12, 31)],
     [name |-> "A", start |-> Date(2025, 12, 31), end |-> Date(2025, 7, 15)],
     [name |-> "B", start |-> NaT, end |-> Date(2026, 2, 28)],
     [name |-> "A", start |-> Unparseable, end |-> NaT]}

GanttTables ==
    {[columns |-> GanttColumns, rows |-> rows] : rows \in TaskTables(GanttRows)}
    \cup {[columns |-> GanttColumns \ {c},
           rows |-> <<[name |-> "A", start |-> Date(2025, 7, 15),
                       end |-> Date(2026, 2, 28)]>>] : c \in GanttColumns}

InitAxis ==
    /\ clock = Date(2025, 9, 1)
    /\ hist = NoCall
    /\ \/ \E year \in FiscalYears :
            \E tasks \in TaskTables(TimelineRows(year)) :
                call = Pending("gen_time_marks",
                               [tasks |-> tasks,
                                fallback_range |-> get_fiscal_year_range(year)])
       \/ \E df \in GanttTables :
                call = Pending("create_project_gantt_chart", [df |-> df])

GenTimeMarks ==
    /\ call.fn = "gen_time_marks"
    /\ ~call.done
    /\ call' = Returned(call, gen_time_marks(call.args.tasks, call.args.fallback_range))
    /\ UNCHANGED <<clock, hist>>

\* create_timeline, lines 1771-1774: the tick values and tick texts of the
\* x axis, from the marks that gen_time_marks returned
CombineTicks ==
    /\ call.fn = "gen_time_marks"
    /\ call.done
    /\ call' = [fn |-> "combine_ticks",
                args |-> call.ret,
                ret |-> [tickvals |-> combine_tick_vals(call.ret.major_marks,
                                                        call.ret.minor_marks),
                         ticktext |-> combine_tick_labels(call.ret.major_marks,
                                                          call.ret.major_labels,
                                                          call.ret.minor_marks,
                                                          call.ret.minor_labels)],
                done |-> TRUE]
    /\ hist' = call
    /\ UNCHANGED clock

CreateProjectGanttChart ==
    /\ call.fn = "create_project_gantt_chart"
    /\ ~call.done
    /\ call' = Returned(call, create_project_gantt_chart(call.args.df))
    /\ UNCHANGED <<clock, hist>>

NextAxis == GenTimeMarks \/ CombineTicks \/ CreateProjectGanttChart

SpecAxis == InitAxis /\ [][NextAxis]_vars

(* ------------------------------------------------------------------ *)
(* Properties of the chart axes                                        *)
(* ------------------------------------------------------------------ *)
TimeMarksReturned == call.fn = "gen_time_marks" /\ call.done

GanttReturned == call.fn = "create_project_gantt_chart" /\ call.done

ValidStarts(tasks) == {tasks[k].plannedStart : k \in 1..Len(tasks)} \ {NaT}

ValidEnds(tasks) == {tasks[k].plannedEnd : k \in 1..Len(tasks)} \ {NaT}

\* the rows of a Gantt source table that _build_axis_marks is given: both
\* cells hold a date and end >= start
GanttAxisRows(df) ==
    {k \in 1..Len(df.rows) :
        /\ to_datetime(df.rows[k].start) # NaT
        /\ to_datetime(df.rows[k].end) # NaT
        /\ df.rows[k].end >= df.rows[k].start}

\* C12 as stated: every start date and every end date present in the input of
\* an axis builder lies within [domainStart, domainEnd], also on rows that
\* have one date only and on rows whose start is later than their end.
C12_EveryInputDateInDomain ==
    /\ TimeMarksReturned =>
          \A d \in ValidStarts(call.args.tasks) \cup ValidEnds(call.args.tasks) :
              call.ret.domain[1] <= d /\ d <= call.ret.domain[2]
    /\ (GanttReturned /\ call.ret.error = "") =>
          \A k \in GanttAxisRows(call.args.df) :
              /\ call.ret.axis.domain_start <= call.args.df.rows[k].start
              /\ call.args.df.rows[k].end <= call.ret.axis.domain_end

\* C12 (amended): gen_time_marks returns a domain that no start date of its
\* input precedes and no end date of its input follows, so that both dates of
\* every row with start <= end lie within [domainStart, domainEnd]; the domain
\* of _build_axis_marks contains both dates of every row it is given (rows
\* with both dates and end >= start).
C12_DomainContainsRanges ==
    /\ TimeMarksReturned =>
          /\ \A d \in ValidStarts(call.args.tasks) : call.ret.domain[1] <= d
          /\ \A d \in ValidEnds(call.args.tasks) : d <= call.ret.domain[2]
          /\ \A k \in 1..Len(call.args.tasks) :
                LET row == call.args.tasks[k] IN
                (row.plannedStart # NaT /\ row.plannedEnd # NaT
                 /\ row.plannedStart <= row.plannedEnd) =>
                    /\ call.ret.domain[1] <= row.plannedStart
                    /\ row.plannedStart <= call.ret.domain[2]
                    /\ call.ret.domain[1] <= row.plannedEnd
                    /\ row.plannedEnd <= call.ret.domain[2]
    /\ (GanttReturned /\ call.ret.error = "") =>
          \A k \in GanttAxisRows(call.args.df) :
              LET row == call.args.df.rows[k] IN
              /\ call.ret.axis.domain_start <= row.start
              /\ row.start <= call.ret.axis.domain_end
              /\ call.ret.axis.domain_start <= row.end
              /\ row.end <= call.ret.axis.domain_end

\* a project that starts before and ends after the fallback range was given to
\* gen_time_marks, and the domain was widened on both sides to hold it
C12_Witness ==
    /\ TimeMarksReturned
    /\ \E k \in 1..Len(call.args.tasks) :
          /\ call.args.tasks[k].plannedStart # NaT
          /\ call.args.tasks[k].plannedStart < call.args.fallback_range[1] - 31
          /\ call.args.tasks[k].plannedEnd > call.args.fallback_range[2] + 30
          /\ call.ret.domain[1] <= call.args.tasks[k].plannedStart
          /\ call.ret.domain[2] >= call.args.tasks[k].plannedEnd

SetMin(S) == CHOOSE x \in S : \A y \in S : x <= y

SetMax(S) == CHOOSE x \in S : \A y \in S : x >= y

IsLastDayOfMonth(d) == MonthOf(d + 1) # MonthOf(d)

SameMonth(a, b) == YearOf(a) = YearOf(b) /\ MonthOf(a) = MonthOf(b)

\* C13: gen_time_marks takes earliest = min(fallback start, valid starts) and
\* latest = max(fallback end, valid ends); domainStart is the first day of the
\* month of earliest - 3 days and domainEnd the last day of the month of
\* latest + 3 days; domainStart is a 1st, domainEnd a last day of a month,
\* domainStart <= domainEnd, and with no row or no valid date the domain is
\* that of the fallback range alone.
C13_TimeDomain ==
    TimeMarksReturned =>
        LET a == call.args
            earliest == SetMin({a.fallback_range[1]} \cup ValidStarts(a.tasks))
            latest == SetMax({a.fallback_range[2]} \cup ValidEnds(a.tasks))
            domainStart == call.ret.domain[1]
            domainEnd == call.ret.domain[2]
        IN /\ DayOf(domainStart) = 1
           /\ SameMonth(domainStart, earliest - 3)
           /\ IsLastDayOfMonth(domainEnd)
           /\ SameMonth(domainEnd, latest + 3)
           /\ domainStart <= domainEnd
           /\ (ValidStarts(a.tasks) = {} /\ ValidEnds(a.tasks) = {}) =>
                 /\ SameMonth(domainStart, a.fallback_range[1] - 3)
                 /\ SameMonth(domainEnd, a.fallback_range[2] + 3)

\* the earliest start is a 2nd of a month and the latest end a 31st: the
\* buffer of three days moves both domain ends into the neighbouring month
C13_Witness ==
    /\ TimeMarksReturned
    /\ ValidStarts(call.args.tasks) # {}
    /\ ValidEnds(call.args.tasks) # {}
    /\ ~SameMonth(call.ret.domain[1], SetMin(ValidStarts(call.args.tasks)))
    /\ ~SameMonth(call.ret.domain[2], SetMax(ValidEnds(call.args.tasks)))
    /\ call.ret.domain[1] < call.args.fallback_range[1] - 62
    /\ call.ret.domain[2] > call.args.fallback_range[2] + 32

SeqRange(s) == {s[i] : i \in 1..Len(s)}

StrictlyAscending(s) == \A i \in 1..(Len(s) - 1) : s[i] < s[i + 1]

\* label is the label that the list labels holds for mark in the list marks
LabelOf(marks, labels, mark, label) ==
    \E j \in 1..Len(marks) : marks[j] = mark /\ labels[j] = label

\* C14: the combined tick list of an axis is strictly ascending, holds exactly
\* the major and the minor marks, lies within [domainStart, domainEnd], and
\* the combined label list has its length, the label at position i being the
\* label of the tick at position i: the major label on a first-of-month tick,
\* the minor label of a labelled minor mark, and "" on a tick without label.
C14_CombinedTicks ==
    /\ (call.fn = "combine_ticks" /\ call.done) =>
          LET m == call.args
              ticks == call.ret.tickvals
              labels == call.ret.ticktext
          IN /\ StrictlyAscending(ticks)
             /\ SeqRange(ticks) = SeqRange(m.major_marks) \cup SeqRange(m.minor_marks)
             /\ \A i \in 1..Len(ticks) :
                   m.domain[1] <= ticks[i] /\ ticks[i] <= m.domain[2]
             /\ Len(labels) = Len(ticks)
             /\ \A i \in 1..Len(ticks) :
                   IF ticks[i] \in SeqRange(m.major_marks)
                   THEN /\ DayOf(ticks[i]) = 1
                        /\ LabelOf(m.major_marks, m.major_labels, ticks[i], labels[i])
                        /\ labels[i] = ToString(MonthOf(ticks[i])) \o "M"
                   ELSE /\ DayOf(ticks[i]) # 1
                        /\ LabelOf(m.minor_marks, m.minor_labels, ticks[i], labels[i])
    /\ (GanttReturned /\ call.ret.error = "") =>
          LET m == call.ret.axis
              ticks == m.tick_positions
              labels == m.tick_labels
          IN /\ StrictlyAscending(ticks)
             /\ SeqRange(ticks) = SeqRange(m.major_marks) \cup SeqRange(m.minor_marks)
             /\ \A i \in 1..Len(ticks) :
                   m.domain_start <= ticks[i] /\ ticks[i] <= m.domain_end
             /\ Len(labels) = Len(ticks)
             /\ \A i \in 1..Len(ticks) :
                   IF ticks[i] \in SeqRange(m.major_marks)
                   THEN /\ DayOf(ticks[i]) = 1
                        /\ labels[i] = strftime_Ym(ticks[i])
                   ELSE /\ DayOf(ticks[i]) # 1
                        /\ labels[i] = ""

\* the ticks of a timeline were combined: more ticks than months, the first a
\* month start with its month label, the second the 6th with its day label
C14_Witness ==
    /\ call.fn = "combine_ticks" /\ call.done
    /\ Len(call.ret.tickvals) = Len(call.args.major_marks) + Len(call.args.minor_marks)
    /\ Len(call.args.minor_marks) > Len(call.args.major_marks)
    /\ call.ret.tickvals[1] = call.args.major_marks[1]
    /\ call.ret.tickvals[2] = call.args.minor_marks[1]
    /\ call.ret.ticktext[2] = "6D"
    /\ call.ret.tickvals[7] = call.args.major_marks[2]

(* ------------------------------------------------------------------ *)
(* Colour contrast: hex_to_rgb, get_contrasting_text_color             *)
(*   A str is a sequence of characters; NotAString stands for a value  *)
(*   that is not a str.  Luminance is in units of 10^-9: the weights   *)
(*   in units of 10^-4 times the linearised channels in units of 10^-5 *)
(*   (rounded to the nearest unit).                                    *)
(* ------------------------------------------------------------------ *)
\* BRAND_COLORS["navy"]
BrandNavy == <<"#", "0", "B", "1", "F", "3", "A">>

White == <<"#", "F", "F", "F", "F", "F", "F">>

NotAString == <<"not a str">>

HexDigitChars ==
    <<"0", "1", "2", "3", "4", "5", "6", "7", "8", "9",
      "a", "b", "c", "d", "e", "f", "A", "B", "C", "D", "E", "F">>

IsHexDigit(ch) == \E p \in 1..Len(HexDigitChars) : HexDigitChars[p] = ch

hex_digit_value(ch) ==
    LET p == CHOOSE q \in 1..Len(HexDigitChars) : HexDigitChars[q] = ch
    IN IF p <= 16 THEN p - 1 ELSE p - 7

\* str.strip(): without the blanks at both ends
RECURSIVE strip_blanks(_)
strip_blanks(s) ==
    IF s = <<>> THEN s
    ELSE IF Head(s) = " " THEN strip_blanks(Tail(s))
    ELSE IF s[Len(s)] = " " THEN strip_blanks(SubSeq(s, 1, Len(s) - 1))
    ELSE s

\* str.lstrip("#"): without the # characters at the front
RECURSIVE lstrip_hash(_)
lstrip_hash(s) ==
    IF s # <<>> /\ Head(s) = "#" THEN lstrip_hash(Tail(s)) ELSE s

\* int(text, 16) of a text of two characters: blanks at both ends are
\* dropped, a sign may precede the digits; None stands for ValueError
int16(text) ==
    LET body == strip_blanks(text) IN
    IF body = <<>> THEN None
    ELSE LET signed == Head(body) \in {"+", "-"}
             digits == IF signed THEN Tail(body) ELSE body
             magnitude == IF Len(digits) = 1 THEN hex_digit_value(digits[1])
                          ELSE 16 * hex_digit_value(digits[1]) + hex_digit_value(digits[2])
         IN IF digits = <<>> \/ \E i \in 1..Len(digits) : ~IsHexDigit(digits[i])
            THEN None
            ELSE IF Head(body) = "-" THEN 0 - magnitude ELSE magnitude

\* the None that hex_to_rgb returns for a text it cannot convert
NoRgb == <<>>

\* hex_to_rgb: (r, g, b), or NoRgb
hex_to_rgb(color) ==
    IF color = NotAString THEN NoRgb
    ELSE LET stripped == lstrip_hash(strip_blanks(color))
             cleaned == IF Len(stripped) = 3
                        THEN <<stripped[1], stripped[1], stripped[2], stripped[2],
                               stripped[3], stripped[3]>>
                        ELSE stripped
         IN IF Len(cleaned) # 6 THEN NoRgb
            ELSE LET rgb == <<int16(SubSeq(cleaned, 1, 2)), int16(SubSeq(cleaned, 3, 4)),
                              int16(SubSeq(cleaned, 5, 6))>>
                 IN IF \E i \in 1..3 : rgb[i] = None THEN NoRgb ELSE rgb

\* ((channel / 255 + 0.055) / 1.055) ** 2.4 in units of 10^-5, for the channels
\* 0..255 (the entries of the channels 0..10 are not used)
GammaTable ==
    <<
      0, 30, 61, 91, 121, 152, 182, 212,
      243, 273, 304, 335, 368, 402, 439, 478,
      518, 561, 605, 651, 700, 750, 802, 857,
      913, 972, 1033, 1096, 1161, 1229, 1298, 1370,
      1444, 1521, 1600, 1681, 1764, 1850, 1938, 2029,
      2122, 2217, 2315, 2416, 2519, 2624, 2732, 2843,
      2956, 3071, 3190, 3310, 3434, 3560, 3689, 3820,
      3955, 4092, 4231, 4374, 4519, 4667, 4817, 4971,
      5127, 5286, 5448, 5613, 5781, 5951, 6125, 6301,
      6480, 6663, 6848, 7036, 7227, 7421, 7619, 7819,
      8022, 8228, 8438, 8650, 8866, 9084, 9306, 9531,
      9759, 9990, 10224, 10462, 10702, 10946, 11193, 11444,
      11697, 11954, 12214, 12477, 12744, 13014, 13287, 13563,
      13843, 14126, 14413, 14703, 14996, 15293, 15593, 15896,
      16203, 16513, 16827, 17144, 17465, 17789, 18116, 18447,
      18782, 19120, 19462, 19807, 20156, 20508, 20864, 21223,
      21586, 21953, 22323, 22697, 23074, 23455, 23840, 24228,
      24620, 25016, 25415, 25818, 26225, 26636, 27050, 27468,
      27889, 28315, 28744, 29177, 29614, 30054, 30499, 30947,
      31399, 31855, 32314, 32778, 33245, 33716, 34191, 34670,
      35153, 35640, 36131, 36625, 37124, 37626, 38133, 38643,
      39157, 39676, 40198, 40724, 41254, 41789, 42327, 42869,
      43415, 43966, 44520, 45079, 45641, 46208, 46778, 47353,
      47932, 48515, 49102, 49693, 50289, 50888, 51492, 52100,
      52712, 53328, 53948, 54572, 55201, 55834, 56471, 57112,
      57758, 58408, 59062, 59720, 60383, 61050, 61721, 62396,
      63076, 63760, 64448, 65141, 65837, 66539, 67244, 67954,
      68669, 69387, 70110, 70838, 71569, 72306, 73046, 73791,
      74540, 75294, 76052, 76815, 77582, 78354, 79130, 79910,
      80695, 81485, 82279, 83077, 83880, 84687, 85499, 86316,
      87137, 87962, 88792, 89627, 90466, 91310, 92158, 93011,
      93869, 94731, 95597, 96469, 97345, 98225, 99110, 100000
    >>

\* to_linear(channel), in units of 10^-5: channel / 255 / 12.92 when
\* channel / 255 <= 0.03928, rounded to the nearest unit
to_linear(channel) ==
    IF channel * 100000 <= 3928 * 255
    THEN (channel * 1000000 + 16473) \div 32946
    ELSE GammaTable[channel + 1]

\* 0.2126 * r + 0.7152 * g + 0.0722 * b, in units of 10^-9
luminance(rgb) ==
    2126 * to_linear(rgb[1]) + 7152 * to_linear(rgb[2]) + 722 * to_linear(rgb[3])

\* variant: the conventional threshold 0.5
get_contrasting_text_color_half(color) ==
    LET rgb == hex_to_rgb(color)
    IN IF rgb = NoRgb THEN BrandNavy
       ELSE IF luminance(rgb) < 500000000 THEN White ELSE BrandNavy

get_contrasting_text_color(color) ==
    LET rgb == hex_to_rgb(color)
    IN IF rgb = NoRgb THEN BrandNavy
       ELSE IF luminance(rgb) < 550000000 THEN White ELSE BrandNavy

(* ---- inputs and state machine ---- *)
\* what stands before and behind the digits of a colour
ColorPrefixes == {<<>>, <<"#">>, <<"#", "#">>, <<" ", "#">>}
ColorSuffixes == {<<>>, <<" ">>}

\* characters of the short form: hex digits, a letter that is none, a sign
ShortChars == {"0", "8", "F", "c", "g", "+"}

\* pairs of characters of the long form: channel values, and pairs with a
\* sign, a blank or a letter that is no hex digit
LongPairs ==
    {<<"0", "0">>, <<"0", "B">>, <<"1", "F">>, <<"3", "A">>, <<"B", "C">>,
     <<"c", "8">>, <<"F", "F">>, <<"+", "A">>, <<"-", "F">>, <<"F", " ">>,
     <<"g", "0">>}

\* digit strings of a length that is neither 3 nor 6
OtherLengths ==
    {<<>>, <<"F">>, <<"F", "F">>, <<"F", "F", "F", "F">>,
     <<"F", "F", "F", "F", "F">>, <<"F", "F", "F", "F", "F", "F", "F">>}

ColorBodies ==
    {<<a, b, c>> : a \in ShortChars, b \in ShortChars, c \in ShortChars}
    \cup {p \o q \o r : p \in LongPairs, q \in LongPairs, r \in LongPairs}
    \cup OtherLengths

Colors ==
    {pre \o body \o suf : pre \in ColorPrefixes, body \in ColorBodies,
                          suf \in ColorSuffixes}
    \cup {NotAString}

InitColor ==
    /\ clock = Date(2025, 9, 1)
    /\ hist = NoCall
    /\ \E color \in Colors :
          call = Pending("get_contrasting_text_color", [color |-> color])

GetContrastingTextColor ==
    /\ call.fn = "get_contrasting_text_color"
    /\ ~call.done
    /\ call' = Returned(call, get_contrasting_text_color(call.args.color))
    /\ UNCHANGED <<clock, hist>>

NextColor == GetContrastingTextColor

SpecColor == InitColor /\ [][NextColor]_vars

(* ---- properties ---- *)
ColorReturned == call.fn = "get_contrasting_text_color" /\ call.done

\* C15: get_contrasting_text_color returns white exactly when the relative
\* luminance 0.2126*R + 0.7152*G + 0.0722*B of the linearised channels is below
\* 0.55 (not 0.5), and the dark brand colour otherwise; "#0B1F3A" gives white
\* and "#FFFFFF" the dark brand colour.
C15_ContrastThreshold ==
    ColorReturned =>
        LET rgb == hex_to_rgb(call.args.color) IN
        /\ rgb # NoRgb =>
              LET lum == 2126 * to_linear(rgb[1]) + 7152 * to_linear(rgb[2])
                         + 722 * to_linear(rgb[3])
              IN /\ (call.ret = White) <=> (lum < 550000000)
                 /\ (call.ret = BrandNavy) <=> (lum >= 550000000)
        /\ call.args.color = <<"#", "0", "B", "1", "F", "3", "A">> => call.ret = White
        /\ call.args.color = <<"#", "F", "F", "F", "F", "F", "F">> =>
              call.ret = <<"#", "0", "B", "1", "F", "3", "A">>

\* the grey #BCBCBC, whose luminance lies between 0.5 and 0.55, got white text
C15_Witness ==
    /\ ColorReturned
    /\ call.args.color = <<"#", "B", "C", "B", "C", "B", "C">>
    /\ luminance(<<188, 188, 188>>) >= 500000000
    /\ luminance(<<188, 188, 188>>) < 550000000
    /\ call.ret = White

\* the digits of a colour: the text without the blanks around it and without
\* the # in front of it
ColorDigits(color) == lstrip_hash(strip_blanks(color))

IsHexColor(color) ==
    /\ color # NotAString
    /\ Len(ColorDigits(color)) \in {3, 6}
    /\ \A i \in 1..Len(ColorDigits(color)) : IsHexDigit(ColorDigits(color)[i])

RatioAggRows(year) ==
    LET fy == get_fiscal_year_range(year)[1]
        none == [cs |-> NaT, ce |-> NaT, ps |-> NaT, pe |-> NaT]
    IN {AggRow(1200, fy + 9, fy + 121, none),
        AggRow(0, fy + 9, fy + 121, none),
        AggRow(0, fy - 16, fy + 371, none),
        AggRow(1200, fy + 121, fy + 9, none),
        AggRow(1200, NaT, NaT, none)}

\* rows of projects.csv with every finance profile
RatioCsvRows ==
    {f @@ s @@ l : f \in FinanceProfiles,
                   s \in {x \in ScheduleProfiles : x.status = "InProgress"},
                   l \in {x \in LabelProfiles : x.id = "P001" /\ x.riskMemo = ""}}

InitRatio ==
    /\ clock = Date(2025, 9, 1)
    /\ hist = NoCall
    /\ \/ \E year \in FiscalYears, i \in {0, 7} :
            LET w == MonthWindow(year, i)
                dates == RangeDates(year) \cup {NaT}
            IN \E value \in Amounts, start \in dates, end \in dates :
                 call = Pending("allocate_value",
                                [value |-> value, start |-> start, end |-> end,
                                 month_start |-> w[1], month_end |-> w[2]])
       \/ \E year \in FiscalYears :
            \E df \in Tables(RatioAggRows(year)) :
                 call = Pending("compute_monthly_aggregation",
                                [df |-> df, year |-> year])
       \/ \E raw \in Tables(RatioCsvRows) :
            call = Pending("enrich_projects", [raw |-> raw, df |-> load_projects(raw)])

NextRatio == AllocateValue \/ ComputeMonthlyAggregation \/ EnrichProjects

SpecRatio == InitRatio /\ [][NextRatio]_vars

\* a number, as opposed to the result of a division by zero
IsNumber(x) == x.d # 0

\* C17: a ratio whose denominator is zero is exactly 0, and never an undefined
\* value: costRatioPct of a row with orderAmount = 0, grossMarginPct of a month
\* with revenue = 0, and the prorated amount of a range with totalDays <= 0.
C17_ZeroDenominatorGivesZero ==
    /\ EnrichReturned =>
          \A k \in 1..Len(call.args.df) :
              /\ IsNumber(call.ret.table[k].costRatioPct)
              /\ call.args.df[k].orderAmount = Zero =>
                    call.ret.table[k].costRatioPct = Zero
    /\ (call.fn = "compute_monthly_aggregation" /\ call.done) =>
          \A k \in 1..Len(call.ret) :
              /\ IsNumber(call.ret[k].grossMarginPct)
              /\ call.ret[k].revenue = Zero => call.ret[k].grossMarginPct = Zero
    /\ (call.fn = "allocate_value" /\ call.done) =>
          /\ IsNumber(call.ret)
          /\ (call.args.start # NaT /\ call.args.end # NaT
              /\ (call.args.end - call.args.start) + 1 <= 0) => call.ret = Zero

\* a project with planned cost and no order amount was enriched: its cost
\* ratio is 0
C17_Witness ==
    /\ EnrichReturned
    /\ \E k \in 1..Len(call.args.df) :
          /\ call.args.df[k].orderAmount = Zero
          /\ call.args.df[k].plannedCost # Zero
          /\ call.ret.table[k].costRatioPct = Zero

(* ------------------------------------------------------------------ *)
(* Scenario metrics: calculate_scenario_metrics (src/app.py 867-914)    *)
(* ------------------------------------------------------------------ *)

\* the largest number of tasks of a scenario
MaxScenarioTasks == 3

\* ts.strftime("%Y-%m-%d")
strftime_Ymd(ts) ==
    ToString(YearOf(ts)) \o "-" \o (IF MonthOf(ts) < 10 THEN "0" ELSE "")
    \o ToString(MonthOf(ts)) \o "-" \o (IF DayOf(ts) < 10 THEN "0" ELSE "")
    \o ToString(DayOf(ts))

\* the value of a cell of `durations` that holds no number (NaN)
NoDuration == -1000000

\* durations = (finish_dates - start_dates).dt.days + 1, before fillna
task_duration(start, finish) ==
    IF start = NaT \/ finish = NaT THEN NoDuration ELSE (finish - start) + 1

\* durations.fillna(0)
durations_fillna(durations) ==
    [k \in 1..Len(durations) |->
        IF durations[k] = NoDuration THEN 0 ELSE durations[k]]

\* durations.idxmax() taken at the last of the largest values
idxmax_last(durations) ==
    CHOOSE k \in 1..Len(durations) :
        /\ \A j \in 1..Len(durations) : durations[j] <= durations[k]
        /\ \A j \in (k + 1)..Len(durations) : durations[j] < durations[k]

\* durations.idxmax(): the label of the first of the largest values (the
\* frames of load_scenarios carry the labels 0..n-1; positions here are 1..n)
idxmax(durations) ==
    CHOOSE k \in 1..Len(durations) :
        /\ \A j \in 1..Len(durations) : durations[j] <= durations[k]
        /\ \A j \in 1..(k - 1) : durations[j] < durations[k]

\* int((valid_finish.max() - valid_start.min()).days) without the day of the
\* start itself
duration_days_exclusive(valid_start, valid_finish) ==
    IF valid_start # {} /\ valid_finish # {}
    THEN series_max(valid_finish) - series_min(valid_start)
    ELSE 0

\* lines 897-899
duration_days(valid_start, valid_finish) ==
    IF valid_start # {} /\ valid_finish # {}
    THEN (series_max(valid_finish) - series_min(valid_start)) + 1
    ELSE 0

\* the fields of the result that are computed from Task, Start and Finish;
\* the progress and cost fields are sums and a mean of other columns
calculate_scenario_metrics(df) ==
    IF Len(df) = 0
    THEN [task_count |-> 0, duration_days |-> 0, critical_task |-> "-",
          critical_duration |-> 0, start_date |-> "-", end_date |-> "-"]
    ELSE
      LET start_dates == [k \in 1..Len(df) |-> to_datetime(df[k].Start)]
          finish_dates == [k \in 1..Len(df) |-> to_datetime(df[k].Finish)]
          valid_start == {start_dates[k] : k \in 1..Len(df)} \ {NaT}
          valid_finish == {finish_dates[k] : k \in 1..Len(df)} \ {NaT}
          durations ==
              durations_fillna([k \in 1..Len(df) |->
                                   task_duration(start_dates[k], finish_dates[k])])
          critical_idx == idxmax(durations)
      IN [task_count |-> Len(df),
          duration_days |-> duration_days(valid_start, valid_finish),
          critical_task |-> df[critical_idx].Task,
          critical_duration |-> IF durations[critical_idx] > 0
                                THEN durations[critical_idx] ELSE 0,
          start_date |-> IF valid_start # {}
                         THEN strftime_Ymd(series_min(valid_start)) ELSE "-",
          end_date |-> IF valid_finish # {}
                       THEN strftime_Ymd(series_max(valid_finish)) ELSE "-"]

\* the Start and Finish cells of the tasks of a scenario file, as days from
\* 2025-12-20: two tasks of ten days, a task of one day, a task with the dates
\* reversed, tasks with one date only (a start before and after every other
\* date), and a task without dates
ScenarioDatePairs ==
    {<<0, 9>>, <<5, 14>>, <<3, 3>>, <<20, 10>>,
     <<None, 30>>, <<-5, None>>, <<40, None>>, <<None, Unparseable>>}

ScenarioTaskNames == <<"T1", "T2", "T3", "T4">>

\* load_scenarios: the frame of a scenario, the cells of Start and Finish
\* parsed with errors="coerce"
ScenarioFrames ==
    LET cell(c) == IF c \in {None, Unparseable} THEN to_datetime(c)
                   ELSE Date(2025, 12, 20) + c
    IN UNION {{[k \in 1..n |-> [Task |-> ScenarioTaskNames[k],
                                Start |-> cell(pairs[k][1]),
                                Finish |-> cell(pairs[k][2])]] :
                  pairs \in [1..n -> ScenarioDatePairs]} :
              n \in 0..MaxScenarioTasks}

InitScenario ==
    /\ clock = Date(2025, 9, 1)
    /\ hist = NoCall
    /\ \E df \in ScenarioFrames :
          call = Pending("calculate_scenario_metrics", [df |-> df])

CalculateScenarioMetrics ==
    /\ call.fn = "calculate_scenario_metrics"
    /\ ~call.done
    /\ call' = Returned(call, calculate_scenario_metrics(call.args.df))
    /\ UNCHANGED <<clock, hist>>

NextScenario == CalculateScenarioMetrics

SpecScenario == InitScenario /\ [][NextScenario]_vars

(* ---- properties of the scenario metrics ---- *)

ScenarioReturned == call.fn = "calculate_scenario_metrics" /\ call.done

\* the rows of a frame with a valid Start, with a valid Finish, and with both
RowsWithStart(df) == {k \in 1..Len(df) : df[k].Start # NaT}

RowsWithFinish(df) == {k \in 1..Len(df) : df[k].Finish # NaT}

RowsWithBoth(df) == RowsWithStart(df) \cap RowsWithFinish(df)

\* C18 as stated: durationDays, startDate and endDate are taken over the rows
\* that have both a valid start and a valid end, and durationDays is 0 when
\* there is no such row.
C18_DurationOverCompleteRows ==
    ScenarioReturned =>
        LET df == call.args.df
            both == RowsWithBoth(df)
            lo == SetMin({df[k].Start : k \in both})
            hi == SetMax({df[k].Finish : k \in both})
        IN IF both = {}
           THEN /\ call.ret.duration_days = 0
                /\ RowsWithStart(df) = {} => call.ret.start_date = "-"
                /\ RowsWithFinish(df) = {} => call.ret.end_date = "-"
           ELSE /\ call.ret.duration_days = (hi - lo) + 1
                /\ call.ret.start_date = strftime_Ymd(lo)
                /\ call.ret.end_date = strftime_Ymd(hi)

\* C18: durationDays = (max(end) - min(start)) in days + 1 with the minimum
\* over every valid start and the maximum over every valid end, each column
\* on its own, and 0 when one of the columns has no valid date; startDate is
\* the smallest valid start and endDate the largest valid end, each "-" when
\* its column has no valid date. When every row that has a date has both, these
\* are the minimum and maximum over the rows with a valid start and end.
C18_DurationOverValidDates ==
    ScenarioReturned =>
        LET df == call.args.df
            starts == {df[k].Start : k \in RowsWithStart(df)}
            ends == {df[k].Finish : k \in RowsWithFinish(df)}
        IN /\ call.ret.duration_days =
                  (IF starts = {} \/ ends = {} THEN 0
                   ELSE (SetMax(ends) - SetMin(starts)) + 1)
           /\ call.ret.start_date =
                  (IF starts = {} THEN "-" ELSE strftime_Ymd(SetMin(starts)))
           /\ call.ret.end_date =
                  (IF ends = {} THEN "-" ELSE strftime_Ymd(SetMax(ends)))
           /\ RowsWithStart(df) = RowsWithFinish(df) =>
                  call.ret.duration_days =
                      (IF RowsWithBoth(df) = {} THEN 0
                       ELSE (SetMax({df[k].Finish : k \in RowsWithBoth(df)})
                             - SetMin({df[k].Start : k \in RowsWithBoth(df)})) + 1)

\* a scenario with a complete task and a task that has only a start, earlier
\* than every other start: the duration is counted from that start
C18_Witness ==
    /\ ScenarioReturned
    /\ RowsWithBoth(call.args.df) # {}
    /\ \E k \in RowsWithStart(call.args.df) \ RowsWithFinish(call.args.df) :
          \A j \in RowsWithBoth(call.args.df) :
              call.args.df[k].Start < call.args.df[j].Start
    /\ call.ret.duration_days > 1
    /\ call.ret.start_date = "2025-12-15"

\* (end - start) in days + 1 of row k of a frame, for a row with both dates
RowDuration(df, k) == (df[k].Finish - df[k].Start) + 1

\* C19 as stated: the critical task is the first of the tasks with the longest
\* individual duration, and criticalDuration is the duration of that task.
C19_CriticalDurationIsTaskDuration ==
    ScenarioReturned =>
        LET df == call.args.df
            both == RowsWithBoth(df)
        IN /\ Len(df) = 0 => /\ call.ret.critical_task = "-"
                             /\ call.ret.critical_duration = 0
           /\ call.ret.critical_duration >= 0
           /\ both # {} =>
                 \E k \in both :
                     /\ \A j \in both : RowDuration(df, j) <= RowDuration(df, k)
                     /\ \A j \in both : j < k => RowDuration(df, j) < RowDuration(df, k)
                     /\ call.ret.critical_task = df[k].Task
                     /\ call.ret.critical_duration = RowDuration(df, k)

\* the duration that the ranking uses: 0 for a task that lacks a date
RankedDuration(df, k) ==
    IF k \in RowsWithBoth(df) THEN RowDuration(df, k) ELSE 0

\* C19: with a task that lacks a start or an end counted as duration 0, the
\* critical task is the first task in row order among those with the longest
\* individual duration ((end - start) in days + 1), and criticalDuration is
\* that task's duration, or 0 when that duration is negative, so it is never
\* negative; for an empty task list criticalTask is "-" and criticalDuration
\* is 0. When some task has end >= start, the critical task is the first of
\* the longest tasks that have both dates and criticalDuration is exactly its
\* duration.
C19_CriticalTask ==
    ScenarioReturned =>
        LET df == call.args.df
        IN /\ Len(df) = 0 => /\ call.ret.critical_task = "-"
                             /\ call.ret.critical_duration = 0
           /\ call.ret.critical_duration >= 0
           /\ Len(df) > 0 =>
                 \E k \in 1..Len(df) :
                     /\ \A j \in 1..Len(df) :
                           RankedDuration(df, j) <= RankedDuration(df, k)
                     /\ \A j \in 1..(k - 1) :
                           RankedDuration(df, j) < RankedDuration(df, k)
                     /\ call.ret.critical_task = df[k].Task
                     /\ call.ret.critical_duration =
                           (IF RankedDuration(df, k) > 0
                            THEN RankedDuration(df, k) ELSE 0)
                     /\ (\E j \in RowsWithBoth(df) : RowDuration(df, j) >= 1) =>
                           /\ k \in RowsWithBoth(df)
                           /\ call.ret.critical_duration = RowDuration(df, k)

\* a scenario whose two longest tasks have the same duration, the second of
\* them later in the table: the first one is reported with its ten days
C19_Witness ==
    /\ ScenarioReturned
    /\ \E k, j \in RowsWithBoth(call.args.df) :
          /\ k < j
          /\ RowDuration(call.args.df, k) = RowDuration(call.args.df, j)
          /\ \A i \in RowsWithBoth(call.args.df) :
                RowDuration(call.args.df, i) <= RowDuration(call.args.df, k)
          /\ \A i \in 1..(k - 1) : RankedDuration(call.args.df, i) < 10
          /\ call.ret.critical_task = call.args.df[k].Task
    /\ call.ret.critical_duration = 10

(* ------------------------------------------------------------------ *)
(* Validation of the edited table: validate_projects (src/app.py       *)
(* 2033-2068). Ids are sequences of characters. Messages are records:  *)
(* msg names the text of the message, col its column (amount messages) *)
(* and row the row number it carries (0 for a message about the table) *)
(* ------------------------------------------------------------------ *)

\* the largest number of rows of an edited table
MaxRows == 2

\* the missing value of an id cell and of a text cell
NoId == <<"NaN">>

NoText == "<NA>"

\* the amount columns in the order they are checked
AmountColumns ==
    <<"orderPlannedAmount", "orderAmount", "budgetCost", "plannedCost", "actualCost">>

\* (df[col] < 0) on one cell: a comparison with NaN is False
lt_zero(x) == x # NaN /\ RLt(x, Zero)

\* Series.between(left, right, inclusive="both") on one cell, and the chained
\* comparison left <= x <= right: False for NaN
between(x, left, right) == x # NaN /\ RLe(RInt(left), x) /\ RLe(x, RInt(right))

\* df["id"].duplicated().any()
id_duplicated(df) ==
    \E k \in 1..Len(df) : \E j \in 1..(k - 1) : df[j].id = df[k].id

TableMessage(msg) == [msg |-> msg, col |-> "", row |-> 0]

\* the messages of one amount column and of the columns after it
RECURSIVE amount_errors(_, _)
amount_errors(df, c) ==
    IF c > Len(AmountColumns) THEN <<>>
    ELSE (IF \E k \in 1..Len(df) : lt_zero(df[k][AmountColumns[c]])
          THEN <<[msg |-> "AmountNegative", col |-> AmountColumns[c], row |-> 0]>>
          ELSE <<>>)
         \o amount_errors(df, c + 1)

\* one pass of the loop over the rows (df.iterrows()); idx + 1 is the
\* position of the row
row_errors(row, position) ==
    LET RowMessage(msg) == <<[msg |-> msg, col |-> "", row |-> position]>>
        reversed(start, end) ==
            coerce_date(start) # None /\ coerce_date(end) # None
            /\ coerce_date(end) < coerce_date(start)
    IN IF row.plannedStart = NaT \/ row.plannedEnd = NaT
       THEN RowMessage("PlannedDatesRequired")
       ELSE (IF row.plannedEnd < row.plannedStart
             THEN RowMessage("PlannedEndBeforeStart") ELSE <<>>)
            \o (IF reversed(row.actualStart, row.actualEnd)
                THEN RowMessage("ActualEndBeforeStart") ELSE <<>>)
            \o (IF reversed(row.cashStart, row.cashEnd)
                THEN RowMessage("CashEndBeforeStart") ELSE <<>>)
            \o (IF reversed(row.payStart, row.payEnd)
                THEN RowMessage("PayEndBeforeStart") ELSE <<>>)
            \o (IF ~between(row.grossMarginPct, -100, 100)
                THEN RowMessage("MarginRange") ELSE <<>>)

RECURSIVE rows_errors(_, _)
rows_errors(df, k) ==
    IF k > Len(df) THEN <<>>
    ELSE row_errors(df[k], k) \o rows_errors(df, k + 1)

validate_projects(df) ==
    LET errors ==
            (IF \E k \in 1..Len(df) :
                   df[k].id = NoId \/ strip_blanks(df[k].id) = <<>>
             THEN <<TableMessage("IdRequired")>> ELSE <<>>)
            \o (IF id_duplicated(df)
                THEN <<TableMessage("IdDuplicated")>> ELSE <<>>)
            \o amount_errors(df, 1)
            \o (IF \E k \in 1..Len(df) : ~between(df[k].progressPct, 0, 100)
                THEN <<TableMessage("ProgressRange")>> ELSE <<>>)
            \o (IF \E k \in 1..Len(df) :
                      (IF df[k].manualRisk = NoText THEN "" ELSE df[k].manualRisk)
                          \notin {"", "Low", "Mid", "High"}
                THEN <<TableMessage("RiskInvalid")>> ELSE <<>>)
            \o rows_errors(df, 1)
    IN [valid |-> Len(errors) = 0, errors |-> errors]

\* a row of the editor that passes every check
ValidRow ==
    [id |-> <<"P", "1">>,
     orderPlannedAmount |-> RInt(1200), orderAmount |-> RInt(1000),
     budgetCost |-> RInt(700), plannedCost |-> RInt(600), actualCost |-> RInt(0),
     progressPct |-> RInt(55), grossMarginPct |-> RInt(20), manualRisk |-> "",
     plannedStart |-> Date(2025, 7, 10), plannedEnd |-> Date(2025, 10, 30),
     actualStart |-> NaT, actualEnd |-> NaT,
     cashStart |-> NaT, cashEnd |-> NaT, payStart |-> NaT, payEnd |-> NaT]

\* the rows of the editor after the conversion of the date and number
\* columns (lines 3636-3641 and 3658-3663): the valid row with one cell or one
\* pair of cells changed. A blank number is NaN where the table is validated
\* for the preview and 0 where it is validated for saving.
EditedRows ==
    {ValidRow}
    \cup {[ValidRow EXCEPT !.id = v] :
             v \in {<<"P", "2">>, <<>>, <<" ">>, <<" ", "P", "1">>, NoId}}
    \cup {[ValidRow EXCEPT !.orderAmount = v] : v \in {RInt(-1), Zero, NaN}}
    \cup {[ValidRow EXCEPT !.actualCost = v] : v \in {RInt(-1), NaN}}
    \cup {[ValidRow EXCEPT !.progressPct = v] :
             v \in {RInt(-1), Zero, RInt(100), RInt(101), NaN}}
    \cup {[ValidRow EXCEPT !.grossMarginPct = v] :
             v \in {RInt(-101), RInt(-100), RInt(100), RInt(101), NaN}}
    \cup {[ValidRow EXCEPT !.manualRisk = v] :
             v \in {"High", " High ", "Other", NoText}}
    \cup {[ValidRow EXCEPT !.plannedStart = p[1], !.plannedEnd = p[2]] :
             p \in {<<NaT, Date(2025, 10, 30)>>,
                    <<Date(2025, 10, 30), Date(2025, 7, 10)>>,
                    <<Date(2025, 7, 10), Date(2025, 7, 10)>>}}
    \cup {[ValidRow EXCEPT !.actualStart = p[1], !.actualEnd = p[2]] :
             p \in {<<Date(2025, 7, 12), Date(2025, 7, 11)>>,
                    <<Date(2025, 7, 12), NaT>>,
                    <<Date(2025, 7, 12), Date(2025, 11, 5)>>}}
    \cup {[ValidRow EXCEPT !.cashStart = Date(2025, 12, 1),
                           !.cashEnd = Date(2025, 11, 1)],
          [ValidRow EXCEPT !.payStart = Date(2025, 12, 1),
                           !.payEnd = Date(2025, 11, 1)]}

EditedTables == UNION {[1..n -> EditedRows] : n \in 0..MaxRows}

InitValidate ==
    /\ clock = Date(2025, 9, 1)
    /\ hist = NoCall
    /\ \E df \in EditedTables : call = Pending("validate_projects", [df |-> df])

ValidateProjects ==
    /\ call.fn = "validate_projects"
    /\ ~call.done
    /\ call' = Returned(call, validate_projects(call.args.df))
    /\ UNCHANGED <<clock, hist>>

NextValidate == ValidateProjects

SpecValidate == InitValidate /\ [][NextValidate]_vars

(* ---- properties of the validation ---- *)

ValidateReturned == call.fn = "validate_projects" /\ call.done

\* the invariants of a project record on the rows of a table, the amounts
\* left out
RecordInvariantsBesidesAmounts(df) ==
    /\ \A k \in 1..Len(df) :
          /\ df[k].id # NoId
          /\ \E i \in 1..Len(df[k].id) : df[k].id[i] # " "
          /\ df[k].plannedStart # NaT /\ df[k].plannedEnd # NaT
          /\ df[k].plannedEnd >= df[k].plannedStart
          /\ (df[k].actualStart # NaT /\ df[k].actualEnd # NaT) =>
                df[k].actualEnd >= df[k].actualStart
          /\ IsNumber(df[k].progressPct)
          /\ RLe(Zero, df[k].progressPct) /\ RLe(df[k].progressPct, RInt(100))
          /\ IsNumber(df[k].grossMarginPct)
          /\ RLe(RInt(-100), df[k].grossMarginPct)
          /\ RLe(df[k].grossMarginPct, RInt(100))
          /\ df[k].manualRisk \in {"", NoText, "Low", "Mid", "High"}
    /\ \A k, j \in 1..Len(df) : k # j => df[k].id # df[j].id

\* every amount of every row is a number that is 0 or more
AmountsNonNegative(df) ==
    \A k \in 1..Len(df) : \A c \in 1..Len(AmountColumns) :
        /\ IsNumber(df[k][AmountColumns[c]])
        /\ RLe(Zero, df[k][AmountColumns[c]])

\* C20: validate_projects returns valid = true exactly when it returns no
\* message, and a table for which it returns valid = true satisfies every
\* invariant of a project record: ids non-empty and pairwise distinct,
\* plannedEnd >= plannedStart, actualEnd >= actualStart where both are
\* present, progressPct in [0,100], grossMarginPct in [-100,100], the five
\* amounts >= 0, riskLevel empty or one of the three levels.
C20_ValidMeansInvariantsHold ==
    ValidateReturned =>
        /\ call.ret.valid <=> call.ret.errors = <<>>
        /\ call.ret.valid =>
              /\ RecordInvariantsBesidesAmounts(call.args.df)
              /\ AmountsNonNegative(call.args.df)

(* ---- delay days of the enriched table ---- *)

\* C22: delayDays of every enriched row is max(0, (actualEnd - plannedEnd) in
\* days); it is 0 when actualEnd or plannedEnd is missing and when the work
\* ended early, and it is never negative.
C22_DelayDays ==
    EnrichReturned =>
        \A k \in 1..Len(call.args.df) :
            LET row == call.args.df[k]
                delay == call.ret.table[k].delayDays
            IN /\ delay >= 0
               /\ (row.actualEnd = NaT \/ row.plannedEnd = NaT) => delay = 0
               /\ (row.actualEnd # NaT /\ row.plannedEnd # NaT) =>
                     /\ row.actualEnd <= row.plannedEnd => delay = 0
                     /\ row.actualEnd > row.plannedEnd =>
                           delay = row.actualEnd - row.plannedEnd

\* a project that ended five days before its planned end was enriched: its
\* delay is 0
C22_Witness ==
    /\ EnrichReturned
    /\ \E k \in 1..Len(call.args.df) :
          /\ call.args.df[k].actualEnd # NaT
          /\ call.args.df[k].plannedEnd # NaT
          /\ call.args.df[k].actualEnd < call.args.df[k].plannedEnd
          /\ call.ret.table[k].delayDays = 0

(* ---- errors and bars of the Gantt chart ---- *)

\* the positions of the rows of a Gantt table that have both dates and
\* end >= start
GanttValidRows(df) ==
    {k \in 1..Len(df.rows) :
        /\ to_datetime(df.rows[k].start) # NaT
        /\ to_datetime(df.rows[k].end) # NaT
        /\ df.rows[k].end >= df.rows[k].start}

\* C23: create_project_gantt_chart raises, and returns no figure, when one of
\* the three columns is absent, when a date column holds no parseable date, or
\* when no row has both dates with end >= start; otherwise the figure has
\* exactly one bar per row with both dates and end >= start, in row order, of
\* length (end - start) in days + 1 >= 1, and no bar for any other row.
C23_GanttErrorsAndBars ==
    GanttReturned =>
        LET df == call.args.df
            valid == GanttValidRows(df)
            nth(i) == CHOOSE k \in valid : Cardinality({j \in valid : j < k}) = i - 1
            fails ==
                \/ GanttColumns \ df.columns # {}
                \/ \A k \in 1..Len(df.rows) : to_datetime(df.rows[k].start) = NaT
                \/ \A k \in 1..Len(df.rows) : to_datetime(df.rows[k].end) = NaT
                \/ valid = {}
        IN /\ fails <=> call.ret.error # ""
           /\ call.ret.error # "" => call.ret.bars = <<>>
           /\ call.ret.error = "" =>
                 /\ Len(call.ret.bars) = Cardinality(valid)
                 /\ \A i \in 1..Len(call.ret.bars) :
                       /\ call.ret.bars[i].project = df.rows[nth(i)].name
                       /\ call.ret.bars[i].base = df.rows[nth(i)].start
                       /\ call.ret.bars[i].duration =
                             (df.rows[nth(i)].end - df.rows[nth(i)].start) + 1
                       /\ call.ret.bars[i].duration >= 1

\* a table with a task of one day and a task whose dates are reversed was
\* drawn: the figure has the one bar, of length 1
C23_Witness ==
    /\ GanttReturned
    /\ call.ret.error = ""
    /\ Len(call.args.df.rows) = 2
    /\ Len(call.ret.bars) = 1
    /\ call.ret.bars[1].duration = 1
    /\ \E k \in 1..2 : /\ to_datetime(call.args.df.rows[k].start) # NaT
                       /\ to_datetime(call.args.df.rows[k].end) # NaT
                       /\ call.args.df.rows[k].end < call.args.df.rows[k].start

(* ---- the annotation of a manual risk level ---- *)

\* C24: when the manual risk level (blanks at its ends dropped) is "Mid" or
\* "High", the comment of determine_risk_level ends with the annotation
\* "Manual:<level>" after the reasons recorded before it, whether or not the
\* manual level raised the level; a manual level that is "Low", empty or
\* outside the three levels adds no reason and leaves the level as the
\* earlier rules set it.
C24_ManualAnnotation ==
    RiskReturned =>
        LET manual == strip(call.args.manualRisk)
            before == call.ret.trace[4]
            after == call.ret.trace[5]
            note == "Manual:" \o manual
        IN /\ manual \in {"Mid", "High"} =>
                 /\ after.reasons = Append1(before.reasons, note)
                 /\ call.ret.comment =
                       (IF before.reasons = <<>> THEN note
                        ELSE join(before.reasons, Len(before.reasons)) \o "," \o note)
                 /\ risk_order[before.level] >= risk_order[manual] =>
                       call.ret.level = before.level
           /\ manual \notin {"Mid", "High"} =>
                 /\ after = before
                 /\ \A k \in 1..Len(call.ret.trace[6].reasons) :
                       call.ret.trace[6].reasons[k] \notin {"Manual:Low", "Manual:"}

\* a row that is over budget, so rated "High", with the manual level "Mid":
\* the comment carries the annotation and the level stays "High"
C24_Witness ==
    /\ RiskReturned
    /\ call.args.overBudget
    /\ call.args.manualRisk = "Mid"
    /\ call.ret.trace[4].level = "High"
    /\ call.ret.level = "High"
    /\ call.ret.comment = "OverBudget,Manual:Mid"

(* ---- expected progress of a row without a span ---- *)

\* C25: calculate_expected_progress returns 0 for every today, a today after
\* the end included, when the start (planned, else actual) is missing, when
\* the planned end is missing, or when start >= end; a project of one day
\* (start = end) has expected progress 0.
C25_NoSpanGivesZero ==
    ProgressReturned =>
        LET row == call.args.row
            start == ProgressStart(row)
        IN (start = NaT \/ row.plannedEnd = NaT \/ start >= row.plannedEnd) =>
               call.ret = Zero

\* the expected progress of a project of one day was asked for a day after
\* its end: it is 0
C25_Witness ==
    /\ ProgressReturned
    /\ call.args.row.plannedStart # NaT
    /\ call.args.row.plannedStart = call.args.row.plannedEnd
    /\ call.args.today > call.args.row.plannedEnd
    /\ call.ret = Zero

(* ---- the periods of cash in and cash out ---- *)

AggregationReturned == call.fn = "compute_monthly_aggregation" /\ call.done

\* a date if set, else the planned date
DateOrPlanned(d, planned) == IF d # NaT THEN d ELSE planned

\* C26: cashIn is prorated over [collectionStart if set, else plannedStart;
\* collectionEnd if set, else plannedEnd] and cashOut over [paymentStart if
\* set, else plannedStart; paymentEnd if set, else plannedEnd], each endpoint
\* falling back on its own; for projects without collection and payment dates
\* cashIn equals revenue and cashOut equals plannedCost in every month.
C26_CashFallsBackToPlannedDates ==
    AggregationReturned =>
        LET df == call.args.df
            cash_in(row, m) ==
                allocate_value(row.orderAmount,
                               DateOrPlanned(row.collectionStart, row.plannedStart),
                               DateOrPlanned(row.collectionEnd, row.plannedEnd),
                               m, month_end_of(m))
            cash_out(row, m) ==
                allocate_value(row.plannedCost,
                               DateOrPlanned(row.paymentStart, row.plannedStart),
                               DateOrPlanned(row.paymentEnd, row.plannedEnd),
                               m, month_end_of(m))
        IN \A k \in 1..Len(call.ret) :
              /\ Len(df) > 0 =>
                    /\ call.ret[k].cashIn =
                          cumsum([j \in 1..Len(df) |-> cash_in(df[j], call.ret[k].month)],
                                 Len(df))
                    /\ call.ret[k].cashOut =
                          cumsum([j \in 1..Len(df) |-> cash_out(df[j], call.ret[k].month)],
                                 Len(df))
              /\ (\A j \in 1..Len(df) :
                     /\ df[j].collectionStart = NaT /\ df[j].collectionEnd = NaT
                     /\ df[j].paymentStart = NaT /\ df[j].paymentEnd = NaT) =>
                    /\ call.ret[k].cashIn = call.ret[k].revenue
                    /\ call.ret[k].cashOut = call.ret[k].plannedCost

(* ---- the ticks of one month ---- *)

\* C27: every month of a domain of gen_time_marks contributes exactly six
\* distinct ticks: the 1st (major, labelled with the month), the 6th, 12th,
\* 18th and 24th (minor, labelled with the day) and the last day of the month
\* (minor, labelled "MonthEnd"); no minor mark is a major mark or occurs
\* twice, so the de-duplication drops no label.
C27_SixTicksPerMonth ==
    TimeMarksReturned =>
        LET r == call.ret
            firsts == {d \in r.domain[1]..r.domain[2] : DayOf(d) = 1}
            ticks == SeqRange(r.major_marks) \cup SeqRange(r.minor_marks)
        IN /\ \A m \in firsts :
                 LET last == CHOOSE d \in (m + 27)..(m + 30) :
                                 SameMonth(d, m) /\ IsLastDayOfMonth(d)
                 IN /\ LabelOf(r.major_marks, r.major_labels, m,
                               ToString(MonthOf(m)) \o "M")
                    /\ \A day \in {6, 12, 18, 24} :
                          LabelOf(r.minor_marks, r.minor_labels, m + (day - 1),
                                  ToString(day) \o "D")
                    /\ LabelOf(r.minor_marks, r.minor_labels, last, "MonthEnd")
                    /\ Cardinality({t \in ticks : m <= t /\ t <= last}) = 6
           /\ StrictlyAscending(r.minor_marks)
           /\ SeqRange(r.minor_marks) \cap SeqRange(r.major_marks) = {}
           /\ Len(r.major_marks) = Cardinality(firsts)
           /\ Len(r.minor_marks) = 5 * Cardinality(firsts)
           /\ Len(r.minor_labels) = Len(r.minor_marks)

\* a domain with a February of 28 days: its last tick is the 28th, labelled
\* "MonthEnd", four days after the tick of the 24th
C27_Witness ==
    /\ TimeMarksReturned
    /\ \E j \in 2..Len(call.ret.minor_marks) :
          /\ MonthOf(call.ret.minor_marks[j]) = 2
          /\ DayOf(call.ret.minor_marks[j]) = 28
          /\ IsLastDayOfMonth(call.ret.minor_marks[j])
          /\ call.ret.minor_labels[j] = "MonthEnd"
          /\ call.ret.minor_labels[j - 1] = "24D"
          /\ call.ret.minor_marks[j - 1] = call.ret.minor_marks[j] - 4

(* ---- the level and the comment of a row without reasons ---- *)

\* C28 as stated: the level is "Low" if and only if the comment is "Stable".
C28_LowIffStable ==
    RiskReturned =>
        /\ call.ret.level = "Low" <=> call.ret.comment = "Stable"
        /\ call.ret.comment # "Stable" => call.ret.level \in {"Mid", "High"}

\* C28: determine_risk_level returns level "Low" if and only if no reason was
\* recorded, and then the comment is "Stable"; every rule step that records a
\* reason leaves the level above "Low", so a comment other than "Stable"
\* comes with level "Mid" or "High". The comment "Stable" comes with level
\* "Low", except for a row without any other reason whose risk memo is the
\* text "Stable" itself: the memo is the reason, the level is "Mid" and the
\* comment reads "Stable".
C28_LowIffNoReason ==
    RiskReturned =>
        LET trace == call.ret.trace
        IN /\ call.ret.level = "Low" <=> trace[6].reasons = <<>>
           /\ call.ret.level = "Low" => call.ret.comment = "Stable"
           /\ call.ret.comment # "Stable" => call.ret.level \in {"Mid", "High"}
           /\ \A k \in 1..5 :
                 Len(trace[k + 1].reasons) > Len(trace[k].reasons) =>
                     trace[k + 1].level # "Low"
           /\ (call.ret.comment = "Stable" /\ call.ret.level # "Low") =>
                 /\ call.args.riskMemo = "Stable"
                 /\ call.ret.level = "Mid"
                 /\ trace[5].reasons = <<>>
                 /\ trace[6].reasons = <<"Stable">>

\* a row with no signal and the risk memo "Stable": level "Mid", comment
\* "Stable"
C28_Witness ==
    /\ RiskReturned
    /\ ~call.args.overBudget
    /\ call.args.delayDays = 0
    /\ call.args.manualRisk = ""
    /\ call.args.riskMemo = "Stable"
    /\ call.ret.level = "Mid"
    /\ call.ret.comment = "Stable"

(* ------------------------------------------------------------------ *)
(* The table of record: generate_new_project_id (src/app.py 1090-1099), *)
(* save_projects and load_projects (794-817), the quick creation form   *)
(* (3227-3261), the save of the edited rows (3656-3679) and             *)
(* import_projects (3300-3322). Ids are sequences of characters.        *)
(* ------------------------------------------------------------------ *)

\* the largest number of ids handed to generate_new_project_id
MaxIds == 3

\* the largest number of rows of the table of record
MaxTableRows == 2

DigitChars == <<"0", "1", "2", "3", "4", "5", "6", "7", "8", "9">>

IsDigit(ch) == \E p \in 1..10 : DigitChars[p] = ch

digit_value(ch) == (CHOOSE p \in 1..10 : DigitChars[p] = ch) - 1

\* the digits at the front of a text: what (\d+) takes, greedily
RECURSIVE leading_digits(_)
leading_digits(s) ==
    IF s # <<>> /\ IsDigit(Head(s))
    THEN <<Head(s)>> \o leading_digits(Tail(s))
    ELSE <<>>

\* int(text) of a text of digits
RECURSIVE int_of_digits(_)
int_of_digits(ds) ==
    IF ds = <<>> THEN 0
    ELSE 10 * int_of_digits(SubSeq(ds, 1, Len(ds) - 1)) + digit_value(ds[Len(ds)])

\* the decimal digits of a natural number
RECURSIVE digits_of(_)
digits_of(n) ==
    IF n < 10 THEN <<DigitChars[n + 1]>>
    ELSE digits_of(n \div 10) \o <<DigitChars[(n % 10) + 1]>>

\* format(n, "03d"): at least three digits, zeros in front
format_03d(n) ==
    LET ds == digits_of(n)
    IN IF Len(ds) >= 3 THEN ds
       ELSE [k \in 1..(3 - Len(ds)) |-> "0"] \o ds

\* re.compile(r"P(\d+)").match(text): the number of the group, None
\* when the text does not start with P and a digit
pattern_match(text) ==
    IF text # <<>> /\ Head(text) = "P" /\ leading_digits(Tail(text)) # <<>>
    THEN int_of_digits(leading_digits(Tail(text)))
    ELSE None

\* the value an id contributes to max_value: a cell that is not a string is
\* skipped, a string is stripped and matched
id_value(raw_id) ==
    IF raw_id = NoId THEN 0
    ELSE LET m == pattern_match(strip_blanks(raw_id))
         IN IF m = None THEN 0 ELSE m

\* variant: the first id counts, not the largest one
max_value_first(existing_ids) ==
    IF existing_ids = {} THEN 0
    ELSE id_value(CHOOSE i \in existing_ids : TRUE)

\* max_value after the loop over existing_ids
max_value(existing_ids) ==
    IF existing_ids = {} THEN 0
    ELSE CHOOSE v \in {id_value(i) : i \in existing_ids} :
             \A i \in existing_ids : id_value(i) <= v

generate_new_project_id(existing_ids) ==
    <<"P">> \o format_03d(max_value(existing_ids) + 1)

\* ids as they are written: padded, unpadded, with a suffix, with blanks
\* around them, with more than three digits, not matching at all, and a
\* cell that is not a string
IdPool ==
    {<<"P", "0", "0", "1">>, <<"P", "1">>, <<"P", "0", "0", "2">>,
     <<"P", "0", "0", "2", "-", "A">>, <<" ", "P", "0", "0", "3", " ">>,
     <<"P", "0", "1", "0">>, <<"P", "9", "9", "9">>,
     <<"P", "1", "0", "0", "0">>, <<"P">>, <<"p", "5">>, <<"X", "9">>,
     <<"A", "P", "7">>, <<>>, NoId}

IdSets == {s \in SUBSET IdPool : Cardinality(s) <= MaxIds}

(* ---- the rows of the table and the file that holds them ---- *)

TableDateColumns ==
    {"plannedStart", "plannedEnd", "actualStart", "actualEnd",
     "cashStart", "cashEnd", "payStart", "payEnd"}

TableNumericColumns ==
    {"orderPlannedAmount", "orderAmount", "budgetCost", "plannedCost",
     "actualCost", "progressPct", "grossMarginPct"}

\* Series.astype(str) on an id cell: a missing id reads "nan"
astype_str(id) == IF id = NoId THEN <<"n", "a", "n">> ELSE id

\* one row written by to_csv and read again by load_projects: a missing or
\* empty id or text is written as an empty cell and read as missing, a
\* missing number is filled with 0
reload_row(row) ==
    [f \in DOMAIN row |->
        IF f = "id" THEN (IF row[f] = <<>> THEN NoId ELSE row[f])
        ELSE IF f = "manualRisk" THEN (IF row[f] = "" THEN NoText ELSE row[f])
        ELSE IF f \in TableNumericColumns THEN (IF row[f] = NaN THEN Zero ELSE row[f])
        ELSE row[f]]

\* the place of a row in sort_values(by=planned start): missing dates last
sort_key(row) == IF row.plannedStart = NaT THEN Date(9999, 12, 31) ELSE row.plannedStart

\* save_projects followed by load_projects: the orders of the rows that
\* sort_values may leave (rows of equal date in any order: the sort is not
\* stable), every row as it is read again
save_projects(df) ==
    LET n == Len(df)
        keys == [k \in 1..n |-> sort_key(df[k])]
        orders == {p \in [1..n -> 1..n] :
                      /\ \A i, j \in 1..n : i # j => p[i] # p[j]
                      /\ \A i \in 1..(n - 1) : keys[p[i]] <= keys[p[i + 1]]}
    IN {[k \in 1..n |-> reload_row(df[p[k]])] : p \in orders}

\* the ids of a table
ids_of(df) == {df[k].id : k \in 1..Len(df)}

\* a table of record with its ids non-empty and pairwise distinct
ids_unique_nonempty(df) ==
    /\ \A k \in 1..Len(df) : df[k].id # NoId /\ strip_blanks(df[k].id) # <<>>
    /\ ~id_duplicated(df)

\* a project as load_projects delivers it
TableRow(id, start, amount) ==
    [ValidRow EXCEPT !.id = id, !.plannedStart = start, !.orderAmount = amount,
                     !.manualRisk = NoText]

P001 == <<"P", "0", "0", "1">>
P002 == <<"P", "0", "0", "2">>
P003 == <<"P", "0", "0", "3">>

\* the tables the program starts from
SeedTables ==
    {<<TableRow(P001, Date(2025, 7, 10), RInt(1000))>>,
     <<TableRow(P001, Date(2025, 7, 10), RInt(1000)),
       TableRow(P002, Date(2025, 9, 1), RInt(1000))>>,
     <<TableRow(<<"X", "9">>, Date(2025, 7, 10), RInt(1000)),
       TableRow(<<"P", "2">>, Date(2025, 9, 1), RInt(1000))>>}

(* ---- the handlers that write the table ---- *)

\* the handlers after which the table of record is in call.ret.table; the
\* arguments of a handler are what the user chose (of the editor: the rows
\* the filter shows), the table it works on is the one the handler before it
\* left
TableHandlers ==
    {"load_projects", "render_quick_project_form", "render_projects_tab",
     "import_projects"}

TableReady == call.fn \in TableHandlers /\ call.done

\* the row the quick form builds (lines 3229-3258)
quick_new_row(new_id, start_date, duration) ==
    LET finish_date == start_date + (duration - 1)
    IN [id |-> new_id,
        orderPlannedAmount |-> Zero, orderAmount |-> Zero, budgetCost |-> Zero,
        plannedCost |-> Zero, actualCost |-> Zero,
        progressPct |-> Zero, grossMarginPct |-> Zero, manualRisk |-> "",
        plannedStart |-> start_date, plannedEnd |-> finish_date,
        actualStart |-> NaT, actualEnd |-> NaT,
        cashStart |-> finish_date, cashEnd |-> finish_date,
        payStart |-> start_date, payEnd |-> finish_date]

\* what the quick form hands to save_projects: the table with the new row
\* at its end
quick_updated_df(df, start_date, duration) ==
    LET new_id == generate_new_project_id({astype_str(i) : i \in ids_of(df)})
    IN Append(df, quick_new_row(new_id, start_date, duration))

\* the rows of the editor: the shown rows in the order of the table, the
\* row at position k replaced by its edited value
persist_rows(df, shown, k, value) ==
    LET positions == {i \in 1..Len(df) : i \in shown}
        nth(j) == CHOOSE i \in positions :
                      Cardinality({h \in positions : h < i}) = j - 1
    IN [j \in 1..Cardinality(positions) |->
           IF nth(j) = k THEN value ELSE df[nth(j)]]

\* full_df[~full_df["id"].isin(persist_df["id"])]
remaining_rows(full_df, persist_df) ==
    SelectSeq(full_df, LAMBDA row : row.id \notin ids_of(persist_df))

\* pd.concat([persist_df, remaining])
combined_rows(persist_df, full_df) ==
    persist_df \o remaining_rows(full_df, persist_df)

\* DataFrame.update on one row: the cells of the file that are not missing
\* replace the cells of the table
update_row(this, that) ==
    [f \in DOMAIN this |->
        IF f = "id" THEN this[f]
        ELSE IF f \in TableDateColumns
             THEN (IF that[f] = NaT THEN this[f] ELSE that[f])
        ELSE IF f \in TableNumericColumns
             THEN (IF that[f] = NaN THEN this[f] ELSE that[f])
        ELSE (IF that[f] = NoText THEN this[f] ELSE that[f])]

\* merged.update(new_df) for a file without duplicate ids, then the rows of
\* the file whose id the table does not hold, at the end
merge_rows(current_df, new_df) ==
    LET updated ==
            [k \in 1..Len(current_df) |->
                IF current_df[k].id \in ids_of(new_df)
                THEN update_row(current_df[k],
                                new_df[CHOOSE j \in 1..Len(new_df) :
                                           new_df[j].id = current_df[k].id])
                ELSE current_df[k]]
        missing == SelectSeq(new_df, LAMBDA row : row.id \notin ids_of(current_df))
    IN updated \o missing

\* the values one edited row may take: a number changed, its id changed to
\* another id or cleared
EditedValues(row) ==
    {[row EXCEPT !.orderAmount = RInt(2000)]}
    \cup {[row EXCEPT !.id = v] : v \in {P002, P003, <<>>}}

\* the uploaded files after the conversion of lines 3303-3308: a row that
\* changes a project, a new row with blank cells, two rows of one id, a
\* row without id
FileRow(id, start, amount) ==
    [ValidRow EXCEPT !.id = id, !.plannedStart = start, !.orderAmount = amount,
                     !.manualRisk = NoText]

ImportFiles ==
    {<<FileRow(P002, Date(2025, 9, 1), RInt(2000))>>,
     <<FileRow(P003, NaT, NaN)>>,
     <<FileRow(P001, Date(2025, 7, 10), RInt(1000)),
       FileRow(P001, Date(2025, 9, 1), RInt(2000))>>,
     <<FileRow(NoId, Date(2025, 7, 10), RInt(1000))>>}

InitTable ==
    /\ clock = Date(2025, 9, 1)
    /\ hist = NoCall
    /\ \/ \E existing_ids \in IdSets :
             call = Pending("generate_new_project_id",
                            [existing_ids |-> existing_ids])
       \/ \E df \in SeedTables :
             call = Returned(Pending("load_projects", <<>>),
                             [table |-> df, saved |-> FALSE])

GenerateNewProjectId ==
    /\ call.fn = "generate_new_project_id"
    /\ ~call.done
    /\ call' = Returned(call, generate_new_project_id(call.args.existing_ids))
    /\ UNCHANGED <<clock, hist>>

\* the quick form is submitted: without a task name nothing is saved
QuickCreate ==
    /\ TableReady
    /\ Len(call.ret.table) < MaxTableRows
    /\ \E task_name \in {"", "Work"}, start_date \in {Date(2025, 8, 1)},
          duration \in {10} :
       \E df \in {call.ret.table} :
          LET request == Pending("render_quick_project_form",
                                 [task_name |-> task_name,
                                  start_date |-> start_date, duration |-> duration])
          IN IF task_name = ""
             THEN call' = Returned(request, [table |-> df, saved |-> FALSE])
             ELSE \E written \in save_projects(quick_updated_df(df, start_date, duration)) :
                     call' = Returned(request, [table |-> written, saved |-> TRUE])
    /\ UNCHANGED <<clock, hist>>

\* "save changes" in the editor of the shown rows, the first of them edited
SaveEdits ==
    /\ TableReady
    /\ \E full_df \in {call.ret.table} :
       \E shown \in SUBSET (1..Len(full_df)) :
       \E k \in {i \in shown : \A j \in shown : i <= j} :
       \E value \in EditedValues(full_df[k]) :
       \E persist_df \in {persist_rows(full_df, shown, k, value)} :
          LET request == Pending("render_projects_tab", [shown |-> shown])
          IN IF ~validate_projects(persist_df).valid
             THEN call' = Returned(request, [table |-> full_df, saved |-> FALSE])
             ELSE \E combined \in {combined_rows(persist_df, full_df)} :
                     /\ Len(combined) <= MaxTableRows
                     /\ \E written \in save_projects(combined) :
                           call' = Returned(request, [table |-> written, saved |-> TRUE])
    /\ UNCHANGED <<clock, hist>>

\* a file is imported; an exception (two rows of one id in a merged file)
\* is caught and nothing is saved
ImportProjects ==
    /\ TableReady
    /\ \E new_df \in ImportFiles, mode \in {"Replace", "Merge"} :
       \E current_df \in {call.ret.table} :
          LET request == Pending("import_projects",
                                 [new_df |-> new_df, mode |-> mode])
          IN IF mode = "Replace"
             THEN \E written \in save_projects(new_df) :
                     call' = Returned(request, [table |-> written, saved |-> TRUE])
             ELSE IF id_duplicated(new_df)
             THEN call' = Returned(request, [table |-> current_df, saved |-> FALSE])
             ELSE \E merged \in {merge_rows(current_df, new_df)} :
                     /\ Len(merged) <= MaxTableRows
                     /\ \E written \in save_projects(merged) :
                           call' = Returned(request, [table |-> written, saved |-> TRUE])
    /\ UNCHANGED <<clock, hist>>

NextTable == GenerateNewProjectId \/ QuickCreate \/ SaveEdits \/ ImportProjects

SpecTable == InitTable /\ [][NextTable]_vars

(* ---- properties of the table of record ---- *)

NewIdReturned == call.fn = "generate_new_project_id" /\ call.done

\* a step of the quick form that saved, and a step of the editor that saved
QuickFormSaves ==
    TableReady /\ call'.fn = "render_quick_project_form" /\ call'.ret.saved

EditsSave ==
    TableReady /\ call'.fn = "render_projects_tab" /\ call'.ret.saved

\* C21: after every creation by the quick form, every save of edited rows
\* and every import (merge or replace), starting from a table with non-empty
\* pairwise distinct ids, the ids of the table of record are non-empty and
\* pairwise distinct.
C21_IdsStayUniqueAndNonEmpty ==
    TableReady => ids_unique_nonempty(call.ret.table)

\* C29: generate_new_project_id never returns an id of the given set, and a
\* creation by the quick form adds one row whose id the table did not hold:
\* the ids of the table before are kept and the number of distinct ids grows
\* by one with the number of rows.
C29_NewIdIsFresh ==
    /\ [](NewIdReturned =>
            /\ call.ret \notin call.args.existing_ids
            /\ \A i \in call.args.existing_ids : id_value(i) < id_value(call.ret))
    /\ [][QuickFormSaves =>
            /\ Len(call'.ret.table) = Len(call.ret.table) + 1
            /\ Cardinality(ids_of(call'.ret.table))
                  = Cardinality(ids_of(call.ret.table)) + 1
            /\ ids_of(call.ret.table) \subseteq ids_of(call'.ret.table)]_vars

\* ids with a suffix, with blanks around them and not matching: the next id
\* follows the largest number
C29_Witness ==
    /\ NewIdReturned
    /\ call.args.existing_ids
          = {<<"P", "0", "0", "2", "-", "A">>, <<" ", "P", "0", "0", "3", " ">>,
             <<"X", "9">>}
    /\ call.ret = <<"P", "0", "0", "4">>

\* C30: a save of the edited rows leaves every row that was not shown in
\* the table, unchanged, and leaves the number of rows as it was.
C30_HiddenRowsKeptAndCountKept ==
    [][EditsSave =>
          LET full_df == call.ret.table
              written == call'.ret.table
          IN /\ Len(written) = Len(full_df)
             /\ \A i \in 1..Len(full_df) :
                   i \notin call'.args.shown =>
                       Cardinality({j \in 1..Len(written) : written[j] = full_df[i]})
                          = Cardinality({h \in 1..Len(full_df) : full_df[h] = full_df[i]})]_vars

====
